---- MODULE Spec2Model ----
(***************************************************************************)
(* Model of the commitgen workflow engine (WorkflowRunner), the check      *)
(* runner it gates on (CheckRunner), the version-control collaborator      *)
(* (DiffCollector) and the response parser (ResponseValidator).            *)
(*                                                                         *)
(* Texts are sequences of one-character strings, so that trimming, quote   *)
(* stripping and line splitting are computed and not assumed.              *)
(***************************************************************************)
EXTENDS Integers, Sequences, FiniteSets, TLC

VARIABLES
    steps,              \* config.steps given to executeWorkflow
    dryRun,             \* WorkflowRunner.dryRun
    hasFallback,        \* WorkflowRunner.fallbackProvider !== null
    checks,             \* CheckRunner.checks: ordered entries of the Map
    pc,                 \* position inside executeWorkflow / the running step
    stepsCompleted,     \* executeWorkflow: let stepsCompleted
    result,             \* the WorkflowResult returned, NoResult before
    attempts,           \* commitInteractive: let attempts
    previousMessages,   \* commitInteractive: const previousMessages
    messages,           \* the LLMMessage[] handed to generateTextWithFallback
    commitMessage,      \* the parsed commit message of the current attempt
    primaryError,       \* generateTextWithFallback: error caught from the primary
    pendingRejection,   \* a rejected promise nobody awaited (addAll / commit)
    notice,             \* last UI.error/warn/info/success line of workflowRunner.ts
    calls,              \* provider calls of the current generate-text operation
    genCount,           \* generate-text operations started by the current step
    generated,          \* parsed messages shown so far by the current step
    gitOps,             \* version-control operations executed, in order
    stepLog,            \* outcome of every step function that was started
    exitKind,           \* how the current/last commit step left its body
    lastSummary,        \* CheckSummary of the current check step
    diffContext,        \* the staged diff the current commit step works on
    response,           \* text returned by generateTextWithFallback
    raised,             \* the error in flight while pc is genRaised / stepRaised
    stepResult,         \* value returned by the step function, at stepReturned
    genRoute,           \* how the last generate-text operation of the step ended
    cancelledAt,        \* Len(gitOps) when a prompt of the run first rejected, else -1
    cfgFile,            \* the configuration file found by findConfigPath
    env,                \* process.env: COMMITGEN_ACTIVE_MODEL, OPENROUTER_API_KEY
    config,             \* ConfigManager.config after loadConfig
    provider,           \* WorkflowRunner.provider
    fallbackProvider,   \* WorkflowRunner.fallbackProvider
    startError,         \* message of the error that ended the wizard command
    rawText,            \* parseCommitMessage: the response argument
    parsedOnce,         \* parseCommitMessage(rawText)
    parsedTwice,        \* parseCommitMessage(parsedOnce)
    diffLines,          \* CodeContextExtractor.extract: const lines
    symbols,            \* extract: const symbols, updated in place
    renamePass,         \* symbols as detectRenames left them
    extracted,          \* the symbols of the CodeContext returned
    gitLog,             \* findSimilarCommits: what execSync('git log ...') gives
    changedFiles,       \* findSimilarCommits: changedFiles argument
    keywords,           \* findSimilarCommits: keywords argument
    maxCommits,         \* CommitHistoryRetriever.maxCommits
    scoredCommits,      \* findSimilarCommits: const scoredCommits
    similarCommits,     \* the HistoricalCommit[] returned
    wizardPc,           \* position inside WizardMode.runCommitWizard
    prompts,            \* config.prompts: whether each flag is other than false
    statusOutput,       \* checkForChanges: what git status --porcelain gives
    phases,             \* the phases runCommitWizard has started, in order
    checkSummary,       \* runCommitWizard: const checkSummary
    commitResult,       \* runCommitWizard: const commitResult
    command,            \* the configuration command run and what was typed
    saved               \* what ConfigManager.save wrote to the file, if anything

vars == <<steps, dryRun, hasFallback, checks, pc, stepsCompleted, result,
          attempts, previousMessages, messages, commitMessage, primaryError,
          pendingRejection, notice, calls, genCount, generated, gitOps,
          stepLog, exitKind, lastSummary, diffContext, response, raised,
          stepResult, genRoute, cancelledAt, cfgFile, env, config, provider,
          fallbackProvider, startError, rawText, parsedOnce, parsedTwice,
          diffLines, symbols, renamePass, extracted, gitLog, changedFiles,
          keywords, maxCommits, scoredCommits, similarCommits, wizardPc,
          prompts, statusOutput, phases, checkSummary, commitResult, command,
          saved>>

\* ---------------------------------------------------------------- bounds
MaxSteps == 2
MaxTextLen == 6
MaxDiffLines == 5
MaxFreeLines == 3
MaxLogLines == 4

\* ------------------------------------------------------------- constants
maxAttempts == 5
MinMessageLength == 3
MaxMessageLength == 100
SimilarDistance == 3
FileWeight == 6
DirWeight == 3
KeywordWeight == 1

\* ------------------------------------------------------------------ text
\* JavaScript \s as far as the modelled texts use it
Whitespace == {" ", "\n", "\t", "\r"}

LowerLetters ==
    {"a","b","c","d","e","f","g","h","i","j","k","l","m",
     "n","o","p","q","r","s","t","u","v","w","x","y","z"}

UpperLetters ==
    {"A","B","C","D","E","F","G","H","I","J","K","L","M",
     "N","O","P","Q","R","S","T","U","V","W","X","Y","Z"}

Drop(s, n) == SubSeq(s, n + 1, Len(s))

Take(s, n) == SubSeq(s, 1, n)

StartsWith(s, p) == Len(s) >= Len(p) /\ Take(s, Len(p)) = p

EndsWith(s, p) == Len(s) >= Len(p) /\ Drop(s, Len(s) - Len(p)) = p

Includes(s, c) == \E i \in 1..Len(s) : s[i] = c

\* String.prototype.trim
RECURSIVE TrimStart(_)
TrimStart(s) ==
    IF s # <<>> /\ s[1] \in Whitespace THEN TrimStart(Tail(s)) ELSE s

RECURSIVE TrimEnd(_)
TrimEnd(s) ==
    IF s # <<>> /\ s[Len(s)] \in Whitespace
    THEN TrimEnd(Take(s, Len(s) - 1)) ELSE s

Trim(s) == TrimEnd(TrimStart(s))

\* the backquote character (kept as a named one-character token)
Backquote == "BQ"

Fence == <<Backquote, Backquote, Backquote>>

\* [a-z]* : the longest run of lower-case letters at the front
RECURSIVE DropLower(_)
DropLower(s) ==
    IF s # <<>> /\ s[1] \in LowerLetters THEN DropLower(Tail(s)) ELSE s

\* message.replace(/^FENCE[a-z]*\n?/, '') where FENCE is three backquotes
StripFenceOpen(s) ==
    IF StartsWith(s, Fence)
    THEN LET r == DropLower(Drop(s, 3))
         IN  IF r # <<>> /\ r[1] = "\n" THEN Tail(r) ELSE r
    ELSE s

\* message.replace(/\n?FENCE$/, '')
StripFenceClose(s) ==
    IF EndsWith(s, Fence)
    THEN LET r == Take(s, Len(s) - 3)
         IN  IF r # <<>> /\ r[Len(r)] = "\n" THEN Take(r, Len(r) - 1) ELSE r
    ELSE s

\* the quote test and message.slice(1, -1)
StripQuotes(s) ==
    IF \/ (StartsWith(s, <<"\"">>) /\ EndsWith(s, <<"\"">>))
       \/ (StartsWith(s, <<"'">>) /\ EndsWith(s, <<"'">>))
    THEN SubSeq(s, 2, Len(s) - 1)
    ELSE s

\* message.split('\n')[0]
FirstLine(s) ==
    LET breaks == {i \in 1..Len(s) : s[i] = "\n"}
    IN  IF breaks = {} THEN s
        ELSE Take(s, (CHOOSE i \in breaks : \A j \in breaks : i <= j) - 1)

\* a length test that lets a message of 100 characters through
isValidCommitMessage_inclusive(message) ==
    /\ Len(message) > MinMessageLength
    /\ Len(message) <= MaxMessageLength
    /\ ~Includes(message, "\n")

\* ResponseValidator.isValidCommitMessage
isValidCommitMessage(message) ==
    /\ Len(message) > MinMessageLength
    /\ Len(message) < MaxMessageLength
    /\ ~Includes(message, "\n")

FallbackMessage ==
    <<"c","h","o","r","e",":"," ","u","p","d","a","t","e"," ","c","o","d","e">>

sanitizeMessage(message) ==
    LET stripped == IF message # <<>> /\ message[1] \notin (LowerLetters \cup UpperLetters)
                    THEN Tail(message) ELSE message
        m == Trim(stripped)
    IN  IF ~isValidCommitMessage(m) THEN FallbackMessage ELSE m

parseCommitMessage(raw) ==
    LET m1 == Trim(raw)
        m2 == StripFenceClose(StripFenceOpen(m1))
        m3 == StripQuotes(m2)
        m4 == FirstLine(m3)
    IN  IF ~isValidCommitMessage(m4) THEN sanitizeMessage(m4) ELSE m4

\* characters of the raw texts that are enumerated
Alphabet == {"a", " ", "'", "\n", Backquote}

Repeat(c, n) == [i \in 1..n |-> c]

\* raw texts around the length limit, and with the other quote and case
LongTexts ==
    { Repeat("a", MaxMessageLength - 1),
      Repeat("a", MaxMessageLength),
      <<"!">> \o Repeat("a", MaxMessageLength - 1),
      <<"!">> \o Repeat("a", MaxMessageLength),
      <<"!", " ">> \o Repeat("a", MaxMessageLength - 1),
      <<"'">> \o Repeat("a", MaxMessageLength - 1) \o <<" ", "'">>,
      <<"\"", "F", "i", "x", " ", "\"">>,
      <<"1", "F", "i", "x", "\n", "a">> }

\* the response argument: a missing or empty text is <<>>
RawTexts ==
    UNION {[1..n -> Alphabet] : n \in 0..MaxTextLen} \cup LongTexts

\* Array.prototype.join
RECURSIVE Join(_, _)
Join(list, sep) ==
    IF list = <<>> THEN <<>>
    ELSE IF Len(list) = 1 THEN list[1]
    ELSE list[1] \o sep \o Join(Tail(list), sep)

\* ---------------------------------------------------------------- inputs
\* WorkflowStep, and one identifier outside the type (the default: branch)
StepNames ==
    {"stage:all", "stage:prompt", "check:all", "check:build", "check:lint",
     "check:test", "check:typecheck", "commit:auto", "commit:review",
     "commit:interactive", "push", "push:prompt", "create-pr", "unknown"}

StepLists == UNION {[1..n -> StepNames] : n \in 0..MaxSteps}

CommitSteps == {"commit:auto", "commit:review", "commit:interactive"}

CheckSteps ==
    {"check:all", "check:build", "check:lint", "check:test", "check:typecheck"}

\* the check names the configuration file of a modelled run defines
ConfigNames == {"build", "lint", "test"}

CheckEntry(name, enabled, blocking) ==
    [name |-> name, enabled |-> enabled, blocking |-> blocking]

\* Object.entries(checksConfig) of the modelled runs, in file order: a
\* non-blocking and a blocking check in both orders and a disabled check;
\* typecheck is configured in neither
CheckConfigs ==
    { <<CheckEntry("lint", TRUE, FALSE), CheckEntry("build", TRUE, TRUE),
        CheckEntry("test", FALSE, TRUE)>>,
      <<CheckEntry("build", TRUE, TRUE), CheckEntry("lint", TRUE, FALSE),
        CheckEntry("test", FALSE, FALSE)>> }

Error(name, code, message) ==
    [name |-> name, code |-> code, message |-> message]

NoError == Error("", "", <<>>)

\* raw replies of a model provider
Responses ==
    { <<"f","e","a","t">>,
      <<" ","'","f","i","x","!","'","\n">> }

\* errors a provider call raises
ProviderErrors == { Error("TimeoutError", "", <<"timeout">>) }

FallbackErrors == { Error("OpenRouterError", "", <<"quota">>) }

\* text typed into the edit prompt
EditedTexts == { <<"e","d","i","t">> }

\* rejections of an enquirer prompt
PromptErrors ==
    { Error("ExitPromptError", "", <<"closed">>),
      Error("Error", "ERR_USE_AFTER_CLOSE", <<"readline was closed">>),
      Error("Error", "", <<>>) }

\* staged diffs as lines; a header line starts a file
StagedDiffs ==
    { <<>>, <<"+x">>, <<"diff --git", "+x">> }

\* output kinds of a successful git push
PushOutputs == {"->", "up to date", ""}

NoResult == [pending |-> TRUE]

NoSummary == [pending |-> TRUE]

\* --------------------------------------------------- CodeContextExtractor
\* names of declared symbols: one contained in another, and two that are
\* three edits apart and unlike the first two
SymbolNames ==
    { <<"f","o","o">>, <<"F","o","o","2">>,
      <<"f","e","t","c","h","U","s","e","r","s">>,
      <<"g","e","t","U","s","e","r","s">> }

Files == {"a.ts", "b.ts"}

\* a diff line as its leading marker and the words that matter after it
HeaderLine(file) == <<"diff --git", file>>

ChangeLine(sign, keyword, name) == <<sign, keyword, name>>

DiffLineSet ==
    {HeaderLine(f) : f \in Files}
    \cup {<<"+++", "b/a.ts">>}
    \cup {ChangeLine(sg, "function", n) : sg \in {"+", "-"}, n \in SymbolNames}
    \cup {ChangeLine(sg, "class", <<"f","o","o">>) : sg \in {"+", "-"}}

LinesUpTo(n) == UNION {[1..k -> DiffLineSet] : k \in 0..n}

\* a diff opens with the header of its first file, here a.ts; the short ones
\* may open with any line, which the loop of extract skips
IsDiff(lines) ==
    \/ \E rest \in LinesUpTo(MaxDiffLines - 1) :
          lines = <<HeaderLine("a.ts")>> \o rest
    \/ lines \in LinesUpTo(MaxFreeLines)

\* a CodeSymbol; oldName is <<>> while it is not set
Symbol(name, type, action, file) ==
    [name |-> name, type |-> type, action |-> action, oldName |-> <<>>,
     file |-> file]

\* extractSymbolsFromLine for the declarations function, class, interface
extractSymbolsFromLine(words, action, file) ==
    IF Len(words) >= 2 /\ words[1] \in {"function", "class", "interface"}
    THEN << Symbol(words[2], words[1], action, file) >>
    ELSE <<>>

\* the for loop of extract over the lines, with let currentFile
RECURSIVE ScanLines(_, _)
ScanLines(lines, currentFile) ==
    IF lines = <<>> THEN <<>>
    ELSE LET line == Head(lines)
         IN  IF line[1] = "diff --git"
             THEN ScanLines(Tail(lines),
                            IF Len(line) >= 2 THEN line[2] ELSE currentFile)
             ELSE IF currentFile = "" THEN ScanLines(Tail(lines), currentFile)
             ELSE IF line[1] = "+"
             THEN extractSymbolsFromLine(Tail(line), "added", currentFile)
                  \o ScanLines(Tail(lines), currentFile)
             ELSE IF line[1] = "-"
             THEN extractSymbolsFromLine(Tail(line), "deleted", currentFile)
                  \o ScanLines(Tail(lines), currentFile)
             ELSE ScanLines(Tail(lines), currentFile)

UpperSeq ==
    <<"A","B","C","D","E","F","G","H","I","J","K","L","M",
      "N","O","P","Q","R","S","T","U","V","W","X","Y","Z">>

LowerSeq ==
    <<"a","b","c","d","e","f","g","h","i","j","k","l","m",
      "n","o","p","q","r","s","t","u","v","w","x","y","z">>

LowerOf(char) ==
    IF char \in UpperLetters
    THEN LowerSeq[CHOOSE k \in 1..Len(UpperSeq) : UpperSeq[k] = char]
    ELSE char

\* String.prototype.toLowerCase
RECURSIVE toLowerCase(_)
toLowerCase(name) ==
    IF name = <<>> THEN <<>>
    ELSE <<LowerOf(Head(name))>> \o toLowerCase(Tail(name))

\* String.prototype.includes
IncludesText(text, part) ==
    \E i \in 0..(Len(text) - Len(part)) : SubSeq(text, i + 1, i + Len(part)) = part

Min3(a, b, c) ==
    IF a <= b /\ a <= c THEN a ELSE IF b <= c THEN b ELSE c

\* levenshteinDistance: one row of the matrix from the row before it; the
\* cell of column j is kept at index j + 1
RECURSIVE MatrixRow(_, _, _, _)
MatrixRow(before, char, str2, row) ==
    IF Len(row) = Len(str2) + 1 THEN row
    ELSE LET j == Len(row)
             cost == IF char = str2[j] THEN 0 ELSE 1
         IN  MatrixRow(before, char, str2,
                       Append(row, Min3(before[j + 1] + 1,
                                        row[j] + 1,
                                        before[j] + cost)))

RECURSIVE Matrix(_, _, _)
Matrix(str1, str2, i) ==
    IF i = 0 THEN [j \in 1..(Len(str2) + 1) |-> j - 1]
    ELSE MatrixRow(Matrix(str1, str2, i - 1), str1[i], str2, <<i>>)

\* levenshteinDistance: the value of matrix[len1][len2]
levenshteinDistance(str1, str2) ==
    Matrix(str1, str2, Len(str1))[Len(str2) + 1]

areSimilar(name1, name2) ==
    LET lower1 == toLowerCase(name1)
        lower2 == toLowerCase(name2)
    IN  \/ IncludesText(lower1, lower2)
        \/ IncludesText(lower2, lower1)
        \/ levenshteinDistance(lower1, lower2) <= SimilarDistance

\* the pairs of names a diff can declare for which areSimilar is true
SimilarNames ==
    UNION {{<<name1, name2>> :
               name2 \in {other \in SymbolNames : areSimilar(name1, other)}} :
           name1 \in SymbolNames}

\* the test of detectRenames on a deleted and an added symbol
LikelyRename(del, add) ==
    /\ del.type = add.type
    /\ del.file = add.file
    /\ del.name # add.name
    /\ <<del.name, add.name>> \in SimilarNames

\* detectRenames: the array after the two nested loops; the oldName of an
\* added symbol is the name of the last deleted symbol it was paired with
detectRenames(syms) ==
    LET from(d, a) == /\ syms[d].action = "deleted"
                      /\ syms[a].action = "added"
                      /\ LikelyRename(syms[d], syms[a])
        last(a) == CHOOSE d \in 1..Len(syms) :
                       from(d, a) /\ \A e \in (d + 1)..Len(syms) : ~from(e, a)
        mark(i) ==
            IF \E d \in 1..Len(syms) : from(d, i)
            THEN [syms[i] EXCEPT !.action = "renamed",
                                 !.oldName = syms[last(i)].name]
            ELSE IF \E a \in 1..Len(syms) : from(i, a)
            THEN [syms[i] EXCEPT !.action = "renamed"]
            ELSE syms[i]
        marked[k \in 0..Len(syms)] ==
            IF k = 0 THEN <<>> ELSE Append(marked[k - 1], mark(k))
    IN  marked[Len(syms)]

\* the key of the Map of detectModifications
GroupKey(symbol) == <<symbol.name, symbol.type, symbol.file>>

\* a detectModifications that leaves the deleted members as they are
detectModifications_keepsDeleted(syms) ==
    LET has(i, action) == \E j \in 1..Len(syms) :
                             /\ GroupKey(syms[j]) = GroupKey(syms[i])
                             /\ syms[j].action = action
        mark(i) ==
            IF has(i, "added") /\ has(i, "deleted") /\ syms[i].action = "added"
            THEN [syms[i] EXCEPT !.action = "modified"]
            ELSE syms[i]
        marked[k \in 0..Len(syms)] ==
            IF k = 0 THEN <<>> ELSE Append(marked[k - 1], mark(k))
    IN  marked[Len(syms)]

\* a detectModifications that is content with an added or a deleted member
detectModifications_either(syms) ==
    LET has(i, action) == \E j \in 1..Len(syms) :
                             /\ GroupKey(syms[j]) = GroupKey(syms[i])
                             /\ syms[j].action = action
        mark(i) ==
            IF (has(i, "added") \/ has(i, "deleted")) /\ syms[i].action # "renamed"
            THEN [syms[i] EXCEPT !.action = "modified"]
            ELSE syms[i]
        marked[k \in 0..Len(syms)] ==
            IF k = 0 THEN <<>> ELSE Append(marked[k - 1], mark(k))
    IN  marked[Len(syms)]

\* detectModifications: the array after both loops
detectModifications(syms) ==
    LET has(i, action) == \E j \in 1..Len(syms) :
                             /\ GroupKey(syms[j]) = GroupKey(syms[i])
                             /\ syms[j].action = action
        mark(i) ==
            IF has(i, "added") /\ has(i, "deleted") /\ syms[i].action # "renamed"
            THEN [syms[i] EXCEPT !.action = "modified"]
            ELSE syms[i]
        marked[k \in 0..Len(syms)] ==
            IF k = 0 THEN <<>> ELSE Append(marked[k - 1], mark(k))
    IN  marked[Len(syms)]

\* the key of the Set of deduplicateSymbols
SeenKey(symbol) == <<symbol.name, symbol.type, symbol.action, symbol.file>>

\* a deduplicateSymbols that drops nothing
deduplicateSymbols_none(syms) == syms

\* deduplicateSymbols: the first symbol of every key, in order
deduplicateSymbols(syms) ==
    LET seen(k) == \E j \in 1..(k - 1) : SeenKey(syms[j]) = SeenKey(syms[k])
        unique[k \in 0..Len(syms)] ==
            IF k = 0 THEN <<>>
            ELSE IF seen(k) THEN unique[k - 1]
            ELSE Append(unique[k - 1], syms[k])
    IN  unique[Len(syms)]

\* ------------------------------------------------- CommitHistoryRetriever
\* subject lines: one with a capital, one without, and an empty one
Subjects ==
    { <<"F","i","x"," ","l","o","g","i","n">>,
      <<"a","d","d"," ","p","a","r","s","e","r">>,
      <<>> }

\* two files of one directory and a file of the root directory
Paths == { <<"s","r","c","/","a">>, <<"s","r","c","/","b">>, <<"R">> }

\* the lines of the git log output: "hash|subject", a file name, an empty line
CommitLine(subject) == <<"|", subject>>

FileLine(path) == <<"file", path>>

BlankLine == <<"">>

LogLineSet ==
    {CommitLine(m) : m \in Subjects} \cup {FileLine(f) : f \in Paths} \cup {BlankLine}

\* the output of git log, or its failure (no repository, timeout)
LogOutput(ok, lines) == [ok |-> ok, lines |-> lines]

LogOutputs ==
    {LogOutput(TRUE, lines) :
        lines \in UNION {[1..n -> LogLineSet] : n \in 0..MaxLogLines}}
    \cup {LogOutput(FALSE, <<>>)}

ChangedFileLists ==
    { <<>>,
      << <<"s","r","c","/","a">> >>,
      << <<"s","r","c","/","a">>, <<"R">> >>,
      << <<"R">> >> }

KeywordLists ==
    { <<>>,
      << <<"f","i","x">> >>,
      << <<"f","i","x">>, <<"P","a","r","s","e","r">> >> }

MaxCommitsChoices == {1, 2}

\* a HistoricalCommit; the hash is the number of its line in the log
HistoricalCommit(hash, message, files, similarity) ==
    [hash |-> hash, message |-> message, files |-> files, similarity |-> similarity]

\* parseGitLog: let currentCommit = null
NoCommit == HistoricalCommit(0, <<>>, <<>>, 0)

\* parseGitLog: currentCommit && currentCommit.hash && currentCommit.message
IsComplete(commit) == commit.hash # 0 /\ commit.message # <<>>

\* parseGitLog: the loop over the lines and the push of the last commit
RECURSIVE ParseLog(_, _, _, _)
ParseLog(lines, i, currentCommit, commits) ==
    IF i > Len(lines)
    THEN IF IsComplete(currentCommit) THEN Append(commits, currentCommit) ELSE commits
    ELSE IF lines[i][1] = "|"
    THEN ParseLog(lines, i + 1, HistoricalCommit(i, lines[i][2], <<>>, 0),
                  IF IsComplete(currentCommit)
                  THEN Append(commits, currentCommit) ELSE commits)
    ELSE IF lines[i][1] = "file" /\ currentCommit.hash # 0
    THEN ParseLog(lines, i + 1,
                  [currentCommit EXCEPT !.files = Append(@, lines[i][2])], commits)
    ELSE ParseLog(lines, i + 1, currentCommit, commits)

parseGitLog(lines) == ParseLog(lines, 1, NoCommit, <<>>)

\* new Set(files)
SetOf(list) == {list[i] : i \in 1..Len(list)}

\* the parts of a score are counted in 1/Unit, the score in 1/(10 * Unit)
Unit == 120

\* intersection / union of two sets, 0 when the union is empty
Jaccard(set1, set2) ==
    LET intersection == Cardinality(set1 \cap set2)
        union == Cardinality(set1) + Cardinality(set2) - intersection
    IN  IF union > 0 THEN (intersection * Unit) \div union ELSE 0

calculateFileOverlap(files1, files2) ==
    IF Len(files1) = 0 \/ Len(files2) = 0 THEN 0
    ELSE Jaccard(SetOf(files1), SetOf(files2))

getDirectory(filePath) ==
    LET slashes == {i \in 1..Len(filePath) : filePath[i] = "/"}
    IN  IF slashes = {} THEN <<".">>
        ELSE Take(filePath, (CHOOSE i \in slashes : \A j \in slashes : j <= i) - 1)

calculateDirectoryOverlap(files1, files2) ==
    IF Len(files1) = 0 \/ Len(files2) = 0 THEN 0
    ELSE Jaccard({getDirectory(f) : f \in SetOf(files1)},
                 {getDirectory(f) : f \in SetOf(files2)})

\* a calculateKeywordMatch that compares without lowering the case
calculateKeywordMatch_caseSensitive(message, words) ==
    IF Len(words) = 0 THEN 0
    ELSE (Cardinality({i \in 1..Len(words) : IncludesText(message, words[i])})
          * Unit) \div Len(words)

calculateKeywordMatch(message, words) ==
    IF Len(words) = 0 THEN 0
    ELSE (Cardinality({i \in 1..Len(words) :
                          IncludesText(toLowerCase(message), toLowerCase(words[i]))})
          * Unit) \div Len(words)

calculateSimilarity(commit, files, words) ==
    FileWeight * calculateFileOverlap(commit.files, files)
    + DirWeight * calculateDirectoryOverlap(commit.files, files)
    + KeywordWeight * calculateKeywordMatch(commit.message, words)

\* a filter that keeps every commit
IsRelated_always(commit) == commit.similarity >= 0

\* findSimilarCommits: .filter((c) => c.similarity > 0)
IsRelated(commit) == commit.similarity > 0

\* a sort that puts a commit before those of its own score
InsertBySimilarity_unstable(sorted, commit) ==
    LET ahead == Cardinality({i \in 1..Len(sorted) :
                                 sorted[i].similarity > commit.similarity})
    IN  SubSeq(sorted, 1, ahead) \o <<commit>> \o SubSeq(sorted, ahead + 1, Len(sorted))

\* Array.prototype.sort with (a, b) => b.similarity - a.similarity, which is
\* stable: a commit goes behind those that are not below it
InsertBySimilarity(sorted, commit) ==
    LET ahead == Cardinality({i \in 1..Len(sorted) :
                                 sorted[i].similarity >= commit.similarity})
    IN  SubSeq(sorted, 1, ahead) \o <<commit>> \o SubSeq(sorted, ahead + 1, Len(sorted))

RECURSIVE sortBySimilarity(_)
sortBySimilarity(commits) ==
    IF commits = <<>> THEN <<>>
    ELSE InsertBySimilarity(sortBySimilarity(Take(commits, Len(commits) - 1)),
                            commits[Len(commits)])

\* findSimilarCommits: commits.map(...) with the similarity of each
scoreCommits(commits, files, words) ==
    [i \in 1..Len(commits) |->
        [commits[i] EXCEPT !.similarity = calculateSimilarity(commits[i], files, words)]]

\* findSimilarCommits: filter, sort, slice(0, this.maxCommits)
rankCommits(scored, limit) ==
    LET related == SelectSeq(scored, IsRelated)
        sorted == sortBySimilarity(related)
    IN  Take(sorted, IF limit < Len(sorted) THEN limit ELSE Len(sorted))

\* no history retrieval in progress
HistoryIdle ==
    /\ gitLog = LogOutput(FALSE, <<>>)
    /\ changedFiles = <<>>
    /\ keywords = <<>>
    /\ maxCommits = 0
    /\ scoredCommits = <<>>
    /\ similarCommits = <<>>

\* ------------------------------------------------------------ WizardMode
\* config.prompts when the file sets no flag
DefaultPrompts == [askStage |-> TRUE, showChecks |-> TRUE, askPush |-> TRUE]

\* runCommitWizard has not been entered
WizardIdle ==
    /\ wizardPc = "idle"
    /\ prompts = DefaultPrompts
    /\ statusOutput = "none"
    /\ phases = <<>>
    /\ checkSummary = NoSummary
    /\ commitResult = NoResult

\* ------------------------------------------- configuration and providers
\* keys of the models object of a configuration file
ModelNames == {"m1", "m2"}

\* a ModelConfig; "" stands for a field that is missing (falsy)
ModelEntry(kind, model, baseUrl, apiKey) ==
    [defined |-> TRUE, provider |-> kind, model |-> model, baseUrl |-> baseUrl,
     apiKey |-> apiKey]

\* config.models[name] of a name that is no key
Undefined ==
    [defined |-> FALSE, provider |-> "", model |-> "", baseUrl |-> "", apiKey |-> ""]

\* model entries: complete ones and ones with a field missing
ModelEntries ==
    { ModelEntry("ollama", "qwen2.5-coder:7b", "http://localhost:11434", ""),
      ModelEntry("ollama", "qwen2.5-coder:7b", "", ""),
      ModelEntry("openrouter", "openai/gpt-3.5-turbo", "", "stored"),
      ModelEntry("openrouter", "openai/gpt-3.5-turbo", "", ""),
      ModelEntry("openrouter", "", "", "stored"),
      ModelEntry("", "some-model", "", "") }

ConfigFile(state, hasModels, models, active, fallback) ==
    [state |-> state, hasModels |-> hasModels, models |-> models,
     activeModel |-> active, fallbackModel |-> fallback]

\* the file is missing, is no JSON, lacks models, or names its models
ConfigFiles ==
    { ConfigFile(st, FALSE, [n \in ModelNames |-> Undefined], "", "") :
          st \in {"missing", "unparsable"} }
    \cup { ConfigFile("ok", FALSE, [n \in ModelNames |-> Undefined], a, "") :
              a \in {"", "m1"} }
    \cup { ConfigFile("ok", TRUE, [n \in ModelNames |-> IF n = "m1" THEN e1 ELSE e2],
                      a, f) :
              e1 \in ModelEntries, e2 \in ModelEntries \cup {Undefined},
              a \in ModelNames \cup {""}, f \in ModelNames \cup {""} }

Envs == [COMMITGEN_ACTIVE_MODEL : {"", "m2"}, OPENROUTER_API_KEY : {"", "env"}]

NoFile == ConfigFile("none", FALSE, [n \in ModelNames |-> Undefined], "", "")

NoEnv == [COMMITGEN_ACTIVE_MODEL |-> "", OPENROUTER_API_KEY |-> ""]

\* the fields of CommitGenConfig the command reads
Config(models, active, fallback, kind, model, baseUrl, apiKey) ==
    [models |-> models, activeModel |-> active, fallbackModel |-> fallback,
     provider |-> kind, model |-> model, baseUrl |-> baseUrl, apiKey |-> apiKey]

NoConfig == Config([n \in ModelNames |-> Undefined], "", "", "", "", "", "")

\* the file as save left it; nothing was written while written is false
Saved(written, content) == [written |-> written, content |-> content]

NotSaved == Saved(FALSE, NoConfig)

\* no configuration command has run
ManagerIdle ==
    /\ command = <<>>
    /\ saved = NotSaved

\* a || b of JavaScript over strings
Or(a, b) == IF a # "" THEN a ELSE b

\* ConfigManager.loadConfig: the error it throws, or the merged configuration
loadConfig(file, e) ==
    IF file.state = "missing"
    THEN [error |-> "Configuration file not found", config |-> NoConfig]
    ELSE IF file.state = "unparsable"
    THEN [error |-> "Failed to parse", config |-> NoConfig]
    ELSE IF ~file.hasModels \/ file.activeModel = ""
    THEN [error |-> "Invalid configuration", config |-> NoConfig]
    ELSE LET active == Or(e.COMMITGEN_ACTIVE_MODEL, file.activeModel)
             activeModelConfig == file.models[active]
         IN  IF ~activeModelConfig.defined
             THEN [error |-> "Active model not found", config |-> NoConfig]
             ELSE [error |-> "",
                   config |-> Config(file.models, active, file.fallbackModel,
                                     activeModelConfig.provider,
                                     activeModelConfig.model,
                                     activeModelConfig.baseUrl,
                                     Or(e.OPENROUTER_API_KEY,
                                        activeModelConfig.apiKey))]

\* ConfigManager.validate: the model entries it reports, or the first
\* general error
validate(cfg, e) ==
    IF cfg.activeModel = ""
    THEN [valid |-> FALSE, errors |-> {<<"", "activeModel is required">>}]
    ELSE IF ~cfg.models[cfg.activeModel].defined
    THEN [valid |-> FALSE, errors |-> {<<"", "activeModel not found">>}]
    ELSE LET keys == {n \in ModelNames : cfg.models[n].defined}
             errors ==
                 {<<n, "provider is required">> :
                      n \in {k \in keys : cfg.models[k].provider = ""}}
                 \cup {<<n, "model is required">> :
                      n \in {k \in keys : cfg.models[k].model = ""}}
                 \cup {<<n, "ollama provider requires baseUrl">> :
                      n \in {k \in keys : /\ cfg.models[k].provider = "ollama"
                                           /\ cfg.models[k].baseUrl = ""}}
                 \cup {<<n, "openrouter provider requires apiKey">> :
                      n \in {k \in keys :
                                /\ cfg.models[k].provider = "openrouter"
                                /\ Or(cfg.models[k].apiKey,
                                      Or(cfg.apiKey, e.OPENROUTER_API_KEY)) = ""}}
         IN  [valid |-> errors = {}, errors |-> errors]

\* a provider object: credential is what its Authorization header carries
Provider(kind, model, credential) ==
    [built |-> TRUE, kind |-> kind, model |-> model, credential |-> credential]

NoProvider == [built |-> FALSE, kind |-> "", model |-> "", credential |-> ""]

\* an LLMProvider handed to the WorkflowRunner constructor by its caller
GivenProvider == Provider("given", "", "")

\* ProviderFactory.create and the provider constructors
create(cfg, e) ==
    CASE cfg.provider = "ollama" ->
             [error |-> "", provider |-> Provider("ollama", cfg.model, "")]
      [] cfg.provider = "openrouter" ->
             [error |-> "",
              provider |-> Provider("openrouter", cfg.model,
                                    Or(cfg.apiKey, e.OPENROUTER_API_KEY))]
      [] OTHER -> [error |-> "Unknown provider", provider |-> NoProvider]

\* fallbackConfig of the wizard command
fallbackConfig(cfg, e) ==
    LET fallbackModelConfig == cfg.models[cfg.fallbackModel]
    IN  Config(cfg.models, cfg.activeModel, cfg.fallbackModel,
               fallbackModelConfig.provider, fallbackModelConfig.model,
               fallbackModelConfig.baseUrl,
               Or(fallbackModelConfig.apiKey, e.OPENROUTER_API_KEY))

\* a test that also builds a fallback provider for the active model itself
WantsFallback_sameModel(cfg) ==
    /\ cfg.fallbackModel # ""
    /\ cfg.models[cfg.fallbackModel].defined

\* the test guarding the creation of the fallback provider
WantsFallback(cfg) ==
    /\ cfg.fallbackModel # ""
    /\ cfg.fallbackModel # cfg.activeModel
    /\ cfg.models[cfg.fallbackModel].defined

\* generateText can return a text: the OpenRouter provider throws
\* 'API key not found' before any request when it has no credential
Answers(p) == p.kind = "openrouter" => p.credential # ""

\* ---------------------------------------------------------- PromptEngine
buildBracketedCommitPrompt(context) ==
    << [role |-> "system", content |-> <<"systemPrompt">>],
       [role |-> "user", content |-> <<"userPrompt">> \o context] >>

\* a retry instruction that names only the latest earlier message
RetryInstruction_lastOnly(previous) ==
    [role |-> "user",
     content |-> <<"Previous attempt(s) generated: ">>
                 \o previous[Len(previous)]
                 \o <<". Please generate a DIFFERENT commit message with alternative wording or perspective.">>]

\* the variation instruction of commitInteractive
RetryInstruction(previous) ==
    [role |-> "user",
     content |-> <<"Previous attempt(s) generated: ">>
                 \o Join(previous, <<",", " ">>)
                 \o <<". Please generate a DIFFERENT commit message with alternative wording or perspective.">>]

AttemptMessages(context, attempt, previous) ==
    IF attempt > 1 /\ Len(previous) > 0
    THEN Append(buildBracketedCommitPrompt(context), RetryInstruction(previous))
    ELSE buildBracketedCommitPrompt(context)

\* ---------------------------------------------------------- DiffCollector
\* (diff.match(/^diff --git/gm) || []).length
FilesChanged(diff) == Cardinality({i \in 1..Len(diff) : diff[i] = "diff --git"})

\* a test that looks at the diff text only
NoStagedChanges_textOnly(diff) == diff = <<>>

\* !diffContext.diff || diffContext.filesChanged === 0
NoStagedChanges(diff) == diff = <<>> \/ FilesChanged(diff) = 0

GitErrorOf(op) == Error("GitError", "", <<"Git error: Failed to ", op>>)

\* whether the engine awaits the promise of a DiffCollector operation, so
\* that a rejection reaches the catch block of the step
AwaitsGitPromise(op) == op = "push"

GitOp(op, message, ok) ==
    [op |-> op, step |-> stepsCompleted + 1, message |-> message, ok |-> ok]

\* ----------------------------------------------------------- CheckRunner
\* this.checks.get(name)
HasCheck(cfg, name) == \E i \in 1..Len(cfg) : cfg[i].name = name

GetCheck(cfg, name) == cfg[CHOOSE i \in 1..Len(cfg) : cfg[i].name = name]

\* a runChecks that goes on after a failed blocking check
RECURSIVE runChecks_neverBreaks(_, _, _)
runChecks_neverBreaks(cfg, checkNames, passes) ==
    IF checkNames = <<>> THEN <<>>
    ELSE LET name == Head(checkNames)
         IN  IF ~HasCheck(cfg, name)
             THEN runChecks_neverBreaks(cfg, Tail(checkNames), passes)
             ELSE IF ~GetCheck(cfg, name).enabled
                  THEN runChecks_neverBreaks(cfg, Tail(checkNames), passes)
             ELSE <<[name |-> name, passed |-> passes[name]]>>
                  \o runChecks_neverBreaks(cfg, Tail(checkNames), passes)

\* a runChecks that also runs the checks that are switched off
RECURSIVE runChecks_runsDisabled(_, _, _)
runChecks_runsDisabled(cfg, checkNames, passes) ==
    IF checkNames = <<>> THEN <<>>
    ELSE LET name == Head(checkNames)
         IN  IF ~HasCheck(cfg, name)
             THEN runChecks_runsDisabled(cfg, Tail(checkNames), passes)
             ELSE LET r == [name |-> name, passed |-> passes[name]]
                  IN  IF GetCheck(cfg, name).blocking /\ ~r.passed
                      THEN <<r>>
                      ELSE <<r>> \o runChecks_runsDisabled(cfg, Tail(checkNames), passes)

\* runChecks: the results of the checks actually run, in order; passes[n]
\* says whether the command of check n exits with status 0
RECURSIVE runChecks(_, _, _)
runChecks(cfg, checkNames, passes) ==
    IF checkNames = <<>> THEN <<>>
    ELSE LET name == Head(checkNames)
         IN  IF ~HasCheck(cfg, name) THEN runChecks(cfg, Tail(checkNames), passes)
             ELSE IF ~GetCheck(cfg, name).enabled
                  THEN runChecks(cfg, Tail(checkNames), passes)
             ELSE LET r == [name |-> name, passed |-> passes[name]]
                  IN  IF GetCheck(cfg, name).blocking /\ ~r.passed
                      THEN <<r>>
                      ELSE <<r>> \o runChecks(cfg, Tail(checkNames), passes)

summarizeResults(results) ==
    [totalChecks |-> Len(results),
     passed |-> Cardinality({i \in 1..Len(results) : results[i].passed}),
     failed |-> Cardinality({i \in 1..Len(results) : ~results[i].passed}),
     skipped |-> 0,
     results |-> results]

RECURSIVE EnabledNames(_)
EnabledNames(cfg) ==
    IF cfg = <<>> THEN <<>>
    ELSE IF Head(cfg).enabled THEN <<Head(cfg).name>> \o EnabledNames(Tail(cfg))
    ELSE EnabledNames(Tail(cfg))

runAllChecks(cfg, passes) == summarizeResults(runChecks(cfg, EnabledNames(cfg), passes))

\* a gate that lets every summary through
canProceed_lenient(cfg, summary) == TRUE

canProceed(cfg, summary) ==
    \A i \in 1..Len(summary.results) :
        ~(/\ HasCheck(cfg, summary.results[i].name)
          /\ GetCheck(cfg, summary.results[i].name).blocking
          /\ ~summary.results[i].passed)

CheckNameOf(step) ==
    CASE step = "check:build" -> "build"
      [] step = "check:lint" -> "lint"
      [] step = "check:test" -> "test"
      [] step = "check:typecheck" -> "typecheck"

CheckOutcomes == [ConfigNames -> BOOLEAN]

\* -------------------------------------------------------- WorkflowRunner
Init ==
    /\ steps \in StepLists
    /\ dryRun \in BOOLEAN
    /\ hasFallback \in BOOLEAN
    /\ checks \in CheckConfigs
    /\ pc = "step"
    /\ stepsCompleted = 0
    /\ result = NoResult
    /\ attempts = 0
    /\ previousMessages = <<>>
    /\ messages = <<>>
    /\ commitMessage = <<>>
    /\ primaryError = NoError
    /\ pendingRejection = FALSE
    /\ notice = <<>>
    /\ calls = <<>>
    /\ genCount = 0
    /\ generated = <<>>
    /\ gitOps = <<>>
    /\ stepLog = <<>>
    /\ exitKind = "none"
    /\ lastSummary = NoSummary
    /\ diffContext = <<>>
    /\ response = <<>>
    /\ raised = NoError
    /\ stepResult = FALSE
    /\ genRoute = "none"
    /\ cancelledAt = -1
    /\ cfgFile = NoFile
    /\ env = NoEnv
    /\ config = NoConfig
    /\ provider = GivenProvider
    /\ fallbackProvider = IF hasFallback THEN GivenProvider ELSE NoProvider
    /\ startError = ""
    /\ rawText = <<>>
    /\ parsedOnce = <<>>
    /\ parsedTwice = <<>>
    /\ diffLines = <<>>
    /\ symbols = <<>>
    /\ renamePass = <<>>
    /\ extracted = <<>>
    /\ HistoryIdle
    /\ WizardIdle
    /\ ManagerIdle

\* what the wizard command sets up before the engine runs
startup == <<cfgFile, env, config, provider, fallbackProvider, startError>>

\* state of the units that are exercised on their own
extractorVars == <<diffLines, symbols, renamePass, extracted>>

historyVars ==
    <<gitLog, changedFiles, keywords, maxCommits, scoredCommits, similarCommits>>

wizardVars ==
    <<wizardPc, prompts, statusOutput, phases, checkSummary, commitResult>>

managerVars == <<command, saved>>

elsewhere ==
    <<rawText, parsedOnce, parsedTwice, extractorVars, historyVars, wizardVars,
      managerVars>>

inputs == <<steps, dryRun, hasFallback, checks, startup, elsewhere>>

\* the locals of the running step function and of generateTextWithFallback
locals == <<attempts, previousMessages, messages, commitMessage, primaryError,
            calls, genCount, generated, diffContext, response>>

\* what executeWorkflow itself owns
loop == <<stepsCompleted, result, stepLog>>

\* left alone by every step that generates no text
quiet == <<exitKind, lastSummary, genRoute>>

totalSteps == Len(steps)

\* the step the for loop of executeWorkflow is at
CurStep == steps[stepsCompleted + 1]

\* a dispatch that forgets the dry-run test of executeStep
AtStep_ignoresDryRun(names) ==
    /\ pc = "step"
    /\ stepsCompleted < totalSteps
    /\ CurStep \in names

\* executeStep lines 102-107: not a dry run, and the switch selects the step
AtStep(names) ==
    /\ pc = "step"
    /\ stepsCompleted < totalSteps
    /\ ~dryRun
    /\ CurStep \in names

\* the step function returns ok to executeWorkflow
Return(ok) ==
    /\ pc' = "stepReturned"
    /\ stepResult' = ok
    /\ raised' = NoError

\* the step function raises e to executeWorkflow
Raise(e) ==
    /\ pc' = "stepRaised"
    /\ raised' = e
    /\ stepResult' = FALSE

\* the locals as they are when no step function is running
FreshLocals ==
    /\ attempts' = 0
    /\ previousMessages' = <<>>
    /\ messages' = <<>>
    /\ commitMessage' = <<>>
    /\ primaryError' = NoError
    /\ calls' = <<>>
    /\ genCount' = 0
    /\ generated' = <<>>
    /\ diffContext' = <<>>
    /\ response' = <<>>

\* executeWorkflow lines 70-76
FailureResult(completed, step) ==
    [success |-> FALSE,
     stepsCompleted |-> completed,
     totalSteps |-> totalSteps,
     failedStep |-> step,
     error |-> <<"Step failed: ", step>>]

\* executeWorkflow lines 82-86
SuccessResult(completed) ==
    [success |-> TRUE, stepsCompleted |-> completed, totalSteps |-> totalSteps]

\* a catch block that names the step that threw as failedStep
ErrorResult_withStep(completed, e) ==
    [success |-> FALSE,
     stepsCompleted |-> completed,
     totalSteps |-> totalSteps,
     failedStep |-> steps[completed + 1],
     error |-> e.message]

\* executeWorkflow lines 89-94
ErrorResult(completed, e) ==
    [success |-> FALSE,
     stepsCompleted |-> completed,
     totalSteps |-> totalSteps,
     error |-> e.message]

\* a loop that goes on after a step returned false
StopsOn_never(ok) == FALSE

\* executeWorkflow line 69: if (!success)
StopsOn(ok) == ~ok

\* executeWorkflow lines 67-80: the awaited step function returned
NextStep ==
    /\ pc = "stepReturned"
    /\ stepLog' = Append(stepLog, IF stepResult THEN "true" ELSE "false")
    /\ IF StopsOn(stepResult)
       THEN /\ stepsCompleted' = stepsCompleted
            /\ pc' = "done"
            /\ result' = FailureResult(stepsCompleted, CurStep)
       ELSE /\ stepsCompleted' = stepsCompleted + 1
            /\ pc' = "step"
            /\ result' = result
    /\ FreshLocals
    /\ exitKind' = "none"
    /\ lastSummary' = NoSummary
    /\ genRoute' = "none"
    /\ UNCHANGED <<inputs, cancelledAt, pendingRejection, notice, gitOps, raised, stepResult>>

\* executeWorkflow lines 87-94: the awaited step function raised
WorkflowCatch ==
    /\ pc = "stepRaised"
    /\ stepLog' = Append(stepLog, "throw")
    /\ pc' = "done"
    /\ notice' = <<"Workflow failed: ">> \o raised.message
    /\ result' = ErrorResult(stepsCompleted, raised)
    /\ FreshLocals
    /\ exitKind' = "none"
    /\ lastSummary' = NoSummary
    /\ genRoute' = "none"
    /\ UNCHANGED <<inputs, cancelledAt, stepsCompleted, pendingRejection, gitOps, raised,
                   stepResult>>

\* executeWorkflow lines 82-86: the loop ran out of steps
ReturnSuccess ==
    /\ pc = "step"
    /\ stepsCompleted = totalSteps
    /\ pc' = "done"
    /\ result' = SuccessResult(stepsCompleted)
    /\ UNCHANGED <<inputs, cancelledAt, locals, stepsCompleted, stepLog, pendingRejection,
                   notice, gitOps, exitKind, lastSummary, raised, stepResult,
                   genRoute>>

\* executeStep lines 102-105
DryRunStep ==
    /\ pc = "step"
    /\ stepsCompleted < totalSteps
    /\ dryRun
    /\ Return(TRUE)
    /\ UNCHANGED <<inputs, cancelledAt, locals, loop, pendingRejection, notice, gitOps, quiet>>

\* executeStep, default branch
UnknownStep ==
    /\ AtStep(StepNames \ {"stage:all", "stage:prompt", "check:all", "check:build",
                           "check:lint", "check:test", "check:typecheck",
                           "commit:auto", "commit:review", "commit:interactive",
                           "push", "push:prompt", "create-pr"})
    /\ Return(FALSE)
    /\ UNCHANGED <<inputs, cancelledAt, locals, loop, pendingRejection, notice, gitOps, quiet>>

\* stageAll(): addAll() runs git add; ok says whether git add succeeds
stageAll(ok) ==
    LET caught == ~ok /\ AwaitsGitPromise("add")
    IN  /\ gitOps' = Append(gitOps, GitOp("add", <<>>, ok))
        /\ pendingRejection' = (pendingRejection \/ (~ok /\ ~AwaitsGitPromise("add")))
        /\ notice' = IF caught
                     THEN <<"Failed to stage changes: ">> \o GitErrorOf("stage changes").message
                     ELSE notice
        /\ Return(~caught)

StageAll ==
    /\ AtStep({"stage:all"})
    /\ \E ok \in BOOLEAN : stageAll(ok)
    /\ UNCHANGED <<inputs, cancelledAt, locals, loop, quiet>>

\* await prompt(...) rejects: the catch block of the step is entered
Rejected ==
    cancelledAt' = IF cancelledAt < 0 THEN Len(gitOps) ELSE cancelledAt

\* the test of the catch blocks of stagePrompt and pushPrompt
IsPromptExit(e) == e.code = "ERR_USE_AFTER_CLOSE" \/ e.name = "ExitPromptError"

\* stagePrompt(): the confirm prompt answers yes, no, or rejects
StagePrompt ==
    /\ AtStep({"stage:prompt"})
    /\ ~pendingRejection
    /\ \/ /\ \E ok \in BOOLEAN : stageAll(ok)
          /\ UNCHANGED cancelledAt
       \/ /\ notice' = <<"Proceeding with currently staged files">>
          /\ Return(TRUE)
          /\ UNCHANGED <<gitOps, pendingRejection, cancelledAt>>
       \/ \E e \in PromptErrors :
            /\ Rejected
            /\ IF IsPromptExit(e) THEN Raise(e) ELSE Return(FALSE)
            /\ UNCHANGED <<gitOps, pendingRejection, notice>>
    /\ UNCHANGED <<inputs, locals, loop, quiet>>

\* runAllChecks(): run, display, translate the verdict
RunAllChecks ==
    /\ AtStep({"check:all"})
    /\ \E passes \in CheckOutcomes :
         LET summary == runAllChecks(checks, passes)
         IN  /\ lastSummary' = summary
             /\ Return(canProceed(checks, summary))
    /\ UNCHANGED <<inputs, cancelledAt, locals, loop, pendingRejection, notice, gitOps, exitKind,
                   genRoute>>

\* runSpecificCheck(checkName)
RunSpecificCheck ==
    /\ AtStep({"check:build", "check:lint", "check:test", "check:typecheck"})
    /\ \E passes \in CheckOutcomes :
         LET summary == summarizeResults(
                            runChecks(checks, <<CheckNameOf(CurStep)>>, passes))
         IN  /\ lastSummary' = summary
             /\ Return(canProceed(checks, summary))
    /\ UNCHANGED <<inputs, cancelledAt, locals, loop, pendingRejection, notice, gitOps, exitKind,
                   genRoute>>

\* the step function of a commit step returns: its loop state and the frame
\* of generateTextWithFallback go out of scope (commitMessage, response and
\* genCount stay readable until executeWorkflow moves on)
Leave(ok) ==
    /\ Return(ok)
    /\ attempts' = 0
    /\ previousMessages' = <<>>
    /\ messages' = <<>>
    /\ primaryError' = NoError
    /\ calls' = <<>>
    /\ generated' = <<>>
    /\ diffContext' = <<>>

scoped == <<attempts, previousMessages, messages, primaryError, calls, generated,
            diffContext>>

\* the catch block of commitAuto / commitReview / commitInteractive
CommitCatches(e) ==
    /\ notice' = <<"Commit failed: ">> \o e.message
    /\ exitKind' = "error"
    /\ Leave(FALSE)

\* this.diffCollector.commit(message) and the lines after it; ok says
\* whether git commit succeeds
commit(message, how) ==
    \E ok \in BOOLEAN :
        LET caught == ~ok /\ AwaitsGitPromise("commit")
        IN  /\ gitOps' = Append(gitOps, GitOp("commit", message, ok))
            /\ pendingRejection' =
                   (pendingRejection \/ (~ok /\ ~AwaitsGitPromise("commit")))
            /\ IF caught
               THEN CommitCatches(GitErrorOf("create commit"))
               ELSE /\ notice' = <<"Committed successfully">>
                    /\ exitKind' = how
                    /\ Leave(TRUE)

\* generateTextWithFallback is entered with the given messages; count is the
\* number of generate-text operations of the step including this one
StartGenerate(msgs, count) ==
    /\ messages' = msgs
    /\ calls' = <<>>
    /\ genCount' = count
    /\ primaryError' = NoError
    /\ response' = <<>>
    /\ genRoute' = "none"
    /\ pc' = "primary"
    /\ UNCHANGED <<raised, stepResult>>

\* the first lines of the three commit steps: getStagedDiff and its test
CommitStart ==
    /\ AtStep(CommitSteps)
    /\ \/ \* getStagedDiff raises a GitError
          /\ CommitCatches(GitErrorOf("get staged diff"))
          /\ UNCHANGED <<genCount, response, genRoute>>
       \/ \E d \in StagedDiffs :
            IF NoStagedChanges(d)
            THEN /\ notice' = <<"No staged changes to commit">>
                 /\ exitKind' = "noChanges"
                 /\ Leave(FALSE)
                 /\ UNCHANGED <<genCount, response, genRoute>>
            ELSE /\ diffContext' = d
                 /\ attempts' = IF CurStep = "commit:interactive" THEN 1 ELSE 0
                 /\ StartGenerate(AttemptMessages(d, 1, <<>>), 1)
                 /\ UNCHANGED <<notice, exitKind, previousMessages, generated>>
    /\ UNCHANGED <<inputs, cancelledAt, loop, commitMessage, pendingRejection, gitOps,
                   lastSummary>>

\* a fallback call made whether or not a fallback provider was configured
TriesFallback_always(configured) == TRUE

\* generateTextWithFallback line 41: is the fallback tried after a failure
TriesFallback(configured) == configured

\* a combined error that forgets the primary's message
CombinedError_fallbackOnly(e, f) ==
    Error("Error", "",
          <<"Both primary and fallback providers failed. Fallback: ">> \o f.message)

\* generateTextWithFallback line 49
CombinedError(e, f) ==
    Error("Error", "",
          <<"Both primary and fallback providers failed. Primary: ">>
          \o e.message \o <<", Fallback: ">> \o f.message)

\* one provider.generateText(messages) call and what it produced
Call(who, ok, text, e) ==
    [provider |-> who, messages |-> messages, ok |-> ok, text |-> text, error |-> e]

\* generateTextWithFallback lines 37-43 and 53: the primary provider answers
PrimaryCall ==
    /\ pc = "primary"
    /\ ~pendingRejection
    /\ \/ \E text \in Responses :
            /\ Answers(provider)
            /\ calls' = Append(calls, Call("primary", TRUE, text, NoError))
            /\ response' = text
            /\ genRoute' = "primary"
            /\ pc' = "genReturned"
            /\ UNCHANGED <<primaryError, raised>>
       \/ \E e \in ProviderErrors :
            /\ calls' = Append(calls, Call("primary", FALSE, <<>>, e))
            /\ IF TriesFallback(hasFallback)
               THEN /\ primaryError' = e
                    /\ pc' = "fallback"
                    /\ UNCHANGED <<raised, genRoute>>
               ELSE /\ raised' = e
                    /\ genRoute' = "failed"
                    /\ pc' = "genRaised"
                    /\ UNCHANGED primaryError
            /\ UNCHANGED response
    /\ UNCHANGED <<inputs, cancelledAt, loop, attempts, previousMessages, messages,
                   commitMessage, genCount, generated, diffContext,
                   pendingRejection, notice, gitOps, exitKind, lastSummary,
                   stepResult>>

\* generateTextWithFallback lines 44-50: the fallback provider answers
FallbackCall ==
    /\ pc = "fallback"
    /\ ~pendingRejection
    /\ \/ \E text \in Responses :
            /\ Answers(fallbackProvider)
            /\ calls' = Append(calls, Call("fallback", TRUE, text, NoError))
            /\ response' = text
            /\ genRoute' = "fallback"
            /\ pc' = "genReturned"
            /\ UNCHANGED raised
       \/ \E f \in FallbackErrors :
            /\ calls' = Append(calls, Call("fallback", FALSE, <<>>, f))
            /\ raised' = CombinedError(primaryError, f)
            /\ genRoute' = "failed"
            /\ pc' = "genRaised"
            /\ UNCHANGED response
    /\ UNCHANGED <<inputs, cancelledAt, loop, attempts, previousMessages, messages,
                   commitMessage, primaryError, genCount, generated, diffContext,
                   pendingRejection, notice, gitOps, exitKind, lastSummary,
                   stepResult>>

\* the lines of a commit step after generateTextWithFallback returned:
\* parse the response, then commit (commit:auto) or open the prompt
AfterGenerate ==
    /\ pc = "genReturned"
    /\ LET message == parseCommitMessage(response)
       IN  /\ commitMessage' = message
           /\ IF CurStep = "commit:auto"
              THEN commit(message, "accept")
              ELSE /\ pc' = IF CurStep = "commit:review" THEN "confirm" ELSE "select"
                   /\ generated' = Append(generated, message)
                   /\ calls' = <<>>
                   /\ primaryError' = NoError
                   /\ UNCHANGED <<gitOps, pendingRejection, notice, exitKind,
                                  raised, stepResult, attempts, previousMessages,
                                  messages, diffContext>>
    /\ UNCHANGED <<inputs, cancelledAt, loop, genCount, response, lastSummary, genRoute>>

\* generateTextWithFallback raised: the catch block of the commit step
GenerateRaised ==
    /\ pc = "genRaised"
    /\ CommitCatches(raised)
    /\ UNCHANGED <<inputs, cancelledAt, loop, commitMessage, genCount, response,
                   pendingRejection, gitOps, lastSummary, genRoute>>

\* commitReview lines 267-282: the confirm prompt answers
ConfirmAnswer ==
    /\ pc = "confirm"
    /\ ~pendingRejection
    /\ \/ /\ commit(commitMessage, "accept")
          /\ UNCHANGED cancelledAt
       \/ /\ notice' = <<"Commit cancelled">>
          /\ exitKind' = "cancel"
          /\ Leave(FALSE)
          /\ UNCHANGED <<gitOps, pendingRejection, cancelledAt>>
       \/ \E e \in PromptErrors :
            /\ Rejected
            /\ CommitCatches(e)
            /\ UNCHANGED <<gitOps, pendingRejection>>
    /\ UNCHANGED <<inputs, loop, commitMessage, genCount, response, lastSummary,
                   genRoute>>

\* a loop condition that is off by one
LoopContinues_offByOne(n) == n <= maxAttempts

\* the while test of commitInteractive, line 305
LoopContinues(n) == n < maxAttempts

\* exhaustion announced with the line of a cancel
MaxRetriesNotice_asCancel == <<"Commit cancelled">>

\* commitInteractive line 366
MaxRetriesNotice == <<"Maximum retry attempts reached">>

\* an edit whose typed text is dropped
EditedMessage_ignored(current, typed) == current

\* commitInteractive line 352: the message committed after an edit
EditedMessage(current, typed) == typed

\* commitInteractive lines 329-367: the select prompt answers
SelectAnswer ==
    /\ pc = "select"
    /\ ~pendingRejection
    /\ \/ \* accept
          /\ commit(commitMessage, "accept")
          /\ UNCHANGED <<genCount, response, genRoute, cancelledAt>>
       \/ \* edit: the input prompt opens
          /\ pc' = "edit"
          /\ UNCHANGED <<scoped, genCount, response, gitOps, pendingRejection,
                         notice, exitKind, raised, stepResult, genRoute,
                         cancelledAt>>
       \/ \* cancel
          /\ notice' = <<"Commit cancelled">>
          /\ exitKind' = "cancel"
          /\ Leave(FALSE)
          /\ UNCHANGED <<genCount, response, gitOps, pendingRejection, genRoute,
                         cancelledAt>>
       \/ \* retry: remember the message, then the while test
          /\ IF LoopContinues(attempts)
             THEN /\ previousMessages' = Append(previousMessages, commitMessage)
                  /\ attempts' = attempts + 1
                  /\ StartGenerate(AttemptMessages(diffContext, attempts + 1,
                                       Append(previousMessages, commitMessage)),
                                   genCount + 1)
                  /\ UNCHANGED <<notice, exitKind, generated, diffContext>>
             ELSE /\ notice' = MaxRetriesNotice
                  /\ exitKind' = "exhausted"
                  /\ Leave(FALSE)
                  /\ UNCHANGED <<genCount, response, genRoute>>
          /\ UNCHANGED <<gitOps, pendingRejection, cancelledAt>>
       \/ \* the prompt rejects
          \E e \in PromptErrors :
            /\ Rejected
            /\ CommitCatches(e)
            /\ UNCHANGED <<genCount, response, gitOps, pendingRejection, genRoute>>
    /\ UNCHANGED <<inputs, loop, commitMessage, lastSummary>>

\* commitInteractive lines 346-355: the input prompt answers
EditAnswer ==
    /\ pc = "edit"
    /\ ~pendingRejection
    /\ \/ \E t \in EditedTexts :
            /\ commitMessage' = EditedMessage(commitMessage, t)
            /\ commit(EditedMessage(commitMessage, t), "edit")
            /\ UNCHANGED cancelledAt
       \/ \E e \in PromptErrors :
            /\ Rejected
            /\ CommitCatches(e)
            /\ UNCHANGED <<commitMessage, gitOps, pendingRejection>>
    /\ UNCHANGED <<inputs, loop, genCount, response, lastSummary, genRoute>>

\* a push() that reports success when git push failed
push_reportsSuccess ==
    \/ \E out \in PushOutputs :
         /\ gitOps' = Append(gitOps, GitOp("push", <<out>>, TRUE))
         /\ Return(TRUE)
         /\ UNCHANGED <<notice, pendingRejection>>
    \/ /\ gitOps' = Append(gitOps, GitOp("push", <<>>, FALSE))
       /\ notice' = GitErrorOf("push").message
       /\ Return(TRUE)
       /\ UNCHANGED pendingRejection

\* push(): git push succeeds, whatever it prints, or fails
push ==
    \/ \E out \in PushOutputs :
         /\ gitOps' = Append(gitOps, GitOp("push", <<out>>, TRUE))
         /\ Return(TRUE)
         /\ UNCHANGED <<notice, pendingRejection>>
    \/ LET caught == AwaitsGitPromise("push")
       IN  /\ gitOps' = Append(gitOps, GitOp("push", <<>>, FALSE))
           /\ pendingRejection' = (pendingRejection \/ ~caught)
           /\ notice' = IF caught THEN GitErrorOf("push").message ELSE notice
           /\ Return(~caught)

Push ==
    /\ AtStep({"push"})
    /\ push
    /\ UNCHANGED <<inputs, cancelledAt, locals, loop, quiet>>

\* pushPrompt(): the confirm prompt answers yes, no, or rejects
PushPrompt ==
    /\ AtStep({"push:prompt"})
    /\ ~pendingRejection
    /\ \/ /\ push
          /\ UNCHANGED cancelledAt
       \/ /\ notice' = <<"Push skipped">>
          /\ Return(TRUE)
          /\ UNCHANGED <<gitOps, pendingRejection, cancelledAt>>
       \/ \E e \in PromptErrors :
            /\ Rejected
            /\ IF IsPromptExit(e) THEN Raise(e) ELSE Return(TRUE)
            /\ UNCHANGED <<gitOps, pendingRejection, notice>>
    /\ UNCHANGED <<inputs, locals, loop, quiet>>

\* createPR(): a stub that never fails the workflow
CreatePR ==
    /\ AtStep({"create-pr"})
    /\ notice' = <<"You can manually create a PR using: gh pr create">>
    /\ Return(TRUE)
    /\ UNCHANGED <<inputs, cancelledAt, locals, loop, pendingRejection, gitOps, quiet>>

\* the engine waits on real I/O: a prompt or a provider call
AtWait ==
    \/ pc \in {"primary", "fallback", "confirm", "select", "edit"}
    \/ AtStep({"stage:prompt", "push:prompt"})

\* the process-wide unhandledRejection handler runs once the engine yields
\* to the event loop: it prints the reason and exits with status 1
UnhandledRejection ==
    /\ pendingRejection
    /\ AtWait
    /\ pc' = "exited"
    /\ UNCHANGED <<inputs, cancelledAt, locals, loop, pendingRejection, notice, gitOps,
                   quiet, raised, stepResult>>

\* ------------------------------------------------------ wizard command
\* the engine's variables, untouched until the wizard starts a workflow
engine ==
    <<steps, dryRun, hasFallback, checks, locals, loop, quiet, pendingRejection,
      notice, gitOps, raised, stepResult, cancelledAt, elsewhere>>

\* the catch block of the command: Logger.error, process.exit(1)
Abort(message) ==
    /\ startError' = message
    /\ pc' = "aborted"

\* new ConfigManager() and getConfig()
LoadConfig ==
    /\ pc = "loadConfig"
    /\ LET loaded == loadConfig(cfgFile, env)
       IN  IF loaded.error # ""
           THEN Abort(loaded.error) /\ UNCHANGED config
           ELSE /\ config' = loaded.config
                /\ pc' = "createProvider"
                /\ UNCHANGED startError
    /\ UNCHANGED <<engine, cfgFile, env, provider, fallbackProvider>>

\* const provider = ProviderFactory.create(config)
CreateProvider ==
    /\ pc = "createProvider"
    /\ LET made == create(config, env)
       IN  IF made.error # ""
           THEN Abort(made.error) /\ UNCHANGED provider
           ELSE /\ provider' = made.provider
                /\ pc' = "createFallback"
                /\ UNCHANGED startError
    /\ UNCHANGED <<engine, cfgFile, env, config, fallbackProvider>>

\* the creation of the fallback provider, if configured
CreateFallback ==
    /\ pc = "createFallback"
    /\ IF WantsFallback(config)
       THEN LET made == create(fallbackConfig(config, env), env)
            IN  IF made.error # ""
                THEN Abort(made.error) /\ UNCHANGED fallbackProvider
                ELSE /\ fallbackProvider' = made.provider
                     /\ pc' = "wizard"
                     /\ UNCHANGED startError
       ELSE /\ pc' = "wizard"
            /\ UNCHANGED <<fallbackProvider, startError>>
    /\ UNCHANGED <<engine, cfgFile, env, config, provider>>

\* the checks of the defaults of loadConfig, as the CheckRunner holds them
DefaultChecks ==
    << CheckEntry("build", TRUE, TRUE), CheckEntry("lint", FALSE, FALSE),
       CheckEntry("test", FALSE, TRUE), CheckEntry("typecheck", FALSE, FALSE) >>

\* the steps of runQuickWorkflow
QuickSteps == <<"stage:all", "commit:auto", "push">>

\* new CheckRunner, new WorkflowRunner(checkRunner, provider, false,
\* fallbackProvider), then wizard.run() with the answer 'quick':
\* checkForChanges, then executeWorkflow of the quick steps
WizardQuick ==
    /\ pc = "wizard"
    /\ dryRun' = FALSE
    /\ hasFallback' = fallbackProvider.built
    /\ checks' = DefaultChecks
    /\ \E changes \in BOOLEAN :
         IF changes
         THEN steps' = QuickSteps /\ pc' = "step"
         ELSE steps' = steps /\ pc' = "finished"
    /\ UNCHANGED <<startup, elsewhere, locals, loop, quiet, pendingRejection,
                   notice, gitOps, raised, stepResult, cancelledAt>>

Next ==
    \/ ReturnSuccess
    \/ NextStep
    \/ WorkflowCatch
    \/ DryRunStep
    \/ UnknownStep
    \/ StageAll
    \/ StagePrompt
    \/ RunAllChecks
    \/ RunSpecificCheck
    \/ CommitStart
    \/ PrimaryCall
    \/ FallbackCall
    \/ AfterGenerate
    \/ GenerateRaised
    \/ ConfirmAnswer
    \/ SelectAnswer
    \/ EditAnswer
    \/ Push
    \/ PushPrompt
    \/ CreatePR
    \/ UnhandledRejection

Spec == Init /\ [][Next]_vars

\* the wizard command: a configuration file and an environment are given
StartInit ==
    /\ cfgFile \in ConfigFiles
    /\ env \in Envs
    /\ config = NoConfig
    /\ provider = NoProvider
    /\ fallbackProvider = NoProvider
    /\ startError = ""
    /\ pc = "loadConfig"
    /\ steps = <<>>
    /\ dryRun = FALSE
    /\ hasFallback = FALSE
    /\ checks = DefaultChecks
    /\ stepsCompleted = 0
    /\ result = NoResult
    /\ attempts = 0
    /\ previousMessages = <<>>
    /\ messages = <<>>
    /\ commitMessage = <<>>
    /\ primaryError = NoError
    /\ pendingRejection = FALSE
    /\ notice = <<>>
    /\ calls = <<>>
    /\ genCount = 0
    /\ generated = <<>>
    /\ gitOps = <<>>
    /\ stepLog = <<>>
    /\ exitKind = "none"
    /\ lastSummary = NoSummary
    /\ diffContext = <<>>
    /\ response = <<>>
    /\ raised = NoError
    /\ stepResult = FALSE
    /\ genRoute = "none"
    /\ cancelledAt = -1
    /\ rawText = <<>>
    /\ parsedOnce = <<>>
    /\ parsedTwice = <<>>
    /\ diffLines = <<>>
    /\ symbols = <<>>
    /\ renamePass = <<>>
    /\ extracted = <<>>
    /\ HistoryIdle
    /\ WizardIdle
    /\ ManagerIdle

StartNext ==
    \/ LoadConfig
    \/ CreateProvider
    \/ CreateFallback
    \/ WizardQuick
    \/ StageAll
    \/ CommitStart
    \/ PrimaryCall
    \/ FallbackCall
    \/ AfterGenerate
    \/ GenerateRaised
    \/ Push
    \/ NextStep
    \/ ReturnSuccess
    \/ UnhandledRejection

StartSpec == StartInit /\ [][StartNext]_vars

\* ------------------------------------------------------ ResponseValidator
ParseInit ==
    /\ rawText \in RawTexts
    /\ parsedOnce = <<>>
    /\ parsedTwice = <<>>
    /\ diffLines = <<>>
    /\ symbols = <<>>
    /\ renamePass = <<>>
    /\ extracted = <<>>
    /\ HistoryIdle
    /\ WizardIdle
    /\ ManagerIdle
    /\ pc = "parse"
    /\ cfgFile = NoFile
    /\ env = NoEnv
    /\ config = NoConfig
    /\ provider = NoProvider
    /\ fallbackProvider = NoProvider
    /\ startError = ""
    /\ steps = <<>>
    /\ dryRun = FALSE
    /\ hasFallback = FALSE
    /\ checks = DefaultChecks
    /\ stepsCompleted = 0
    /\ result = NoResult
    /\ attempts = 0
    /\ previousMessages = <<>>
    /\ messages = <<>>
    /\ commitMessage = <<>>
    /\ primaryError = NoError
    /\ pendingRejection = FALSE
    /\ notice = <<>>
    /\ calls = <<>>
    /\ genCount = 0
    /\ generated = <<>>
    /\ gitOps = <<>>
    /\ stepLog = <<>>
    /\ exitKind = "none"
    /\ lastSummary = NoSummary
    /\ diffContext = <<>>
    /\ response = <<>>
    /\ raised = NoError
    /\ stepResult = FALSE
    /\ genRoute = "none"
    /\ cancelledAt = -1

\* everything but the parser's own state
outsideParser ==
    <<steps, dryRun, hasFallback, checks, startup, locals, loop, quiet,
      pendingRejection, notice, gitOps, raised, stepResult, cancelledAt,
      extractorVars, historyVars, wizardVars, managerVars>>

\* ResponseValidator.parseCommitMessage(response)
Parse ==
    /\ pc = "parse"
    /\ parsedOnce' = parseCommitMessage(rawText)
    /\ pc' = "reparse"
    /\ UNCHANGED <<rawText, parsedTwice, outsideParser>>

\* parseCommitMessage applied to a message it returned
Reparse ==
    /\ pc = "reparse"
    /\ parsedTwice' = parseCommitMessage(parsedOnce)
    /\ pc' = "parsed"
    /\ UNCHANGED <<rawText, parsedOnce, outsideParser>>

ParseNext ==
    \/ Parse
    \/ Reparse

ParseSpec == ParseInit /\ [][ParseNext]_vars

\* --------------------------------------------------- CodeContextExtractor
ExtractInit ==
    /\ IsDiff(diffLines)
    /\ symbols = <<>>
    /\ renamePass = <<>>
    /\ extracted = <<>>
    /\ HistoryIdle
    /\ WizardIdle
    /\ ManagerIdle
    /\ pc = "scan"
    /\ rawText = <<>>
    /\ parsedOnce = <<>>
    /\ parsedTwice = <<>>
    /\ cfgFile = NoFile
    /\ env = NoEnv
    /\ config = NoConfig
    /\ provider = NoProvider
    /\ fallbackProvider = NoProvider
    /\ startError = ""
    /\ steps = <<>>
    /\ dryRun = FALSE
    /\ hasFallback = FALSE
    /\ checks = DefaultChecks
    /\ stepsCompleted = 0
    /\ result = NoResult
    /\ attempts = 0
    /\ previousMessages = <<>>
    /\ messages = <<>>
    /\ commitMessage = <<>>
    /\ primaryError = NoError
    /\ pendingRejection = FALSE
    /\ notice = <<>>
    /\ calls = <<>>
    /\ genCount = 0
    /\ generated = <<>>
    /\ gitOps = <<>>
    /\ stepLog = <<>>
    /\ exitKind = "none"
    /\ lastSummary = NoSummary
    /\ diffContext = <<>>
    /\ response = <<>>
    /\ raised = NoError
    /\ stepResult = FALSE
    /\ genRoute = "none"
    /\ cancelledAt = -1

\* everything but the extractor's own state
outsideExtractor ==
    <<steps, dryRun, hasFallback, checks, startup, locals, loop, quiet,
      pendingRejection, notice, gitOps, raised, stepResult, cancelledAt,
      rawText, parsedOnce, parsedTwice, historyVars, wizardVars, managerVars>>

\* extract: the loop over the lines, detectRenames, detectModifications and
\* the deduplicateSymbols of the return statement; renamePass keeps the symbols
\* as detectRenames left them
Extract ==
    /\ pc = "scan"
    /\ renamePass' = detectRenames(ScanLines(diffLines, ""))
    /\ symbols' = detectModifications(renamePass')
    /\ extracted' = deduplicateSymbols(symbols')
    /\ pc' = "extracted"
    /\ UNCHANGED <<diffLines, outsideExtractor>>

ExtractNext == Extract

ExtractSpec == ExtractInit /\ [][ExtractNext]_vars

\* ------------------------------------------------- CommitHistoryRetriever
HistoryInit ==
    /\ gitLog \in LogOutputs
    /\ changedFiles \in ChangedFileLists
    /\ keywords \in KeywordLists
    /\ maxCommits \in MaxCommitsChoices
    /\ scoredCommits = <<>>
    /\ similarCommits = <<>>
    /\ pc = "history"
    /\ WizardIdle
    /\ ManagerIdle
    /\ diffLines = <<>>
    /\ symbols = <<>>
    /\ renamePass = <<>>
    /\ extracted = <<>>
    /\ rawText = <<>>
    /\ parsedOnce = <<>>
    /\ parsedTwice = <<>>
    /\ cfgFile = NoFile
    /\ env = NoEnv
    /\ config = NoConfig
    /\ provider = NoProvider
    /\ fallbackProvider = NoProvider
    /\ startError = ""
    /\ steps = <<>>
    /\ dryRun = FALSE
    /\ hasFallback = FALSE
    /\ checks = DefaultChecks
    /\ stepsCompleted = 0
    /\ result = NoResult
    /\ attempts = 0
    /\ previousMessages = <<>>
    /\ messages = <<>>
    /\ commitMessage = <<>>
    /\ primaryError = NoError
    /\ pendingRejection = FALSE
    /\ notice = <<>>
    /\ calls = <<>>
    /\ genCount = 0
    /\ generated = <<>>
    /\ gitOps = <<>>
    /\ stepLog = <<>>
    /\ exitKind = "none"
    /\ lastSummary = NoSummary
    /\ diffContext = <<>>
    /\ response = <<>>
    /\ raised = NoError
    /\ stepResult = FALSE
    /\ genRoute = "none"
    /\ cancelledAt = -1

\* everything but the retriever's own state
outsideHistory ==
    <<steps, dryRun, hasFallback, checks, startup, locals, loop, quiet,
      pendingRejection, notice, gitOps, raised, stepResult, cancelledAt,
      rawText, parsedOnce, parsedTwice, extractorVars, wizardVars, managerVars>>

\* findSimilarCommits: the try block when git log gives its output
FindSimilarCommits ==
    /\ pc = "history"
    /\ gitLog.ok
    /\ scoredCommits' = scoreCommits(parseGitLog(gitLog.lines), changedFiles, keywords)
    /\ similarCommits' = rankCommits(scoredCommits', maxCommits)
    /\ pc' = "ranked"
    /\ UNCHANGED <<gitLog, changedFiles, keywords, maxCommits, outsideHistory>>

\* findSimilarCommits: the catch block, return []
HistoryUnavailable ==
    /\ pc = "history"
    /\ ~gitLog.ok
    /\ scoredCommits' = <<>>
    /\ similarCommits' = <<>>
    /\ pc' = "ranked"
    /\ UNCHANGED <<gitLog, changedFiles, keywords, maxCommits, outsideHistory>>

HistoryNext ==
    \/ FindSimilarCommits
    \/ HistoryUnavailable

HistorySpec == HistoryInit /\ [][HistoryNext]_vars

\* ------------------------------------------- WizardMode.runCommitWizard
\* the checks of the configuration: those of the engine runs, and a file
\* that enables none
WizardCheckConfigs == CheckConfigs \cup { <<CheckEntry("lint", FALSE, FALSE)>> }

\* the wizard command has built its WorkflowRunner (dryRun false) and the
\* user chose 'commit'
WizardInit ==
    /\ wizardPc = "checkForChanges"
    /\ prompts \in [askStage : BOOLEAN, showChecks : BOOLEAN, askPush : BOOLEAN]
    /\ statusOutput \in {"changes", "", "error"}
    /\ phases = <<>>
    /\ checkSummary = NoSummary
    /\ commitResult = NoResult
    /\ steps = <<>>
    /\ dryRun = FALSE
    /\ hasFallback \in BOOLEAN
    /\ checks \in WizardCheckConfigs
    /\ pc = "wizard"
    /\ stepsCompleted = 0
    /\ result = NoResult
    /\ attempts = 0
    /\ previousMessages = <<>>
    /\ messages = <<>>
    /\ commitMessage = <<>>
    /\ primaryError = NoError
    /\ pendingRejection = FALSE
    /\ notice = <<>>
    /\ calls = <<>>
    /\ genCount = 0
    /\ generated = <<>>
    /\ gitOps = <<>>
    /\ stepLog = <<>>
    /\ exitKind = "none"
    /\ lastSummary = NoSummary
    /\ diffContext = <<>>
    /\ response = <<>>
    /\ raised = NoError
    /\ stepResult = FALSE
    /\ genRoute = "none"
    /\ cancelledAt = -1
    /\ cfgFile = NoFile
    /\ env = NoEnv
    /\ config = NoConfig
    /\ provider = GivenProvider
    /\ fallbackProvider = IF hasFallback THEN GivenProvider ELSE NoProvider
    /\ startError = ""
    /\ rawText = <<>>
    /\ parsedOnce = <<>>
    /\ parsedTwice = <<>>
    /\ diffLines = <<>>
    /\ symbols = <<>>
    /\ renamePass = <<>>
    /\ extracted = <<>>
    /\ HistoryIdle
    /\ ManagerIdle

\* what the wizard leaves to the engine and to the other units
outsideWizard ==
    <<dryRun, hasFallback, checks, startup, locals, quiet, pendingRejection,
      notice, gitOps, raised, stepResult, rawText, parsedOnce, parsedTwice,
      extractorVars, historyVars, managerVars, prompts, statusOutput>>

\* the wizard is at a statement of its own, no workflow is running
InWizard(at) == wizardPc = at /\ pc = "wizard"

\* await this.workflowRunner.executeWorkflow({steps: [...]}) is entered
ExecuteWorkflow(phase, list) ==
    /\ phases' = Append(phases, phase)
    /\ steps' = list
    /\ pc' = "step"
    /\ stepsCompleted' = 0
    /\ result' = NoResult
    /\ stepLog' = <<>>

\* the wizard moves on without starting a workflow
Goto(at) ==
    /\ wizardPc' = at
    /\ pc' = "wizard"
    /\ UNCHANGED <<steps, loop>>

\* await promptYesNo(...) rejects: the error leaves runCommitWizard
PromptThrows ==
    /\ Goto("threw")
    /\ Rejected

\* runCommitWizard line 1069: if (!result.success) return
StagingStops(outcome) == ~outcome.success

\* runCommitWizard line 1105: if (!commitResult.success) return
CommitStops(outcome) == ~outcome.success

\* checkForChanges: git status --porcelain gives text, nothing, or fails
CheckForChanges ==
    /\ InWizard("checkForChanges")
    /\ IF statusOutput = "changes" THEN Goto("stage") ELSE Goto("returned")
    /\ UNCHANGED <<outsideWizard, cancelledAt, phases, checkSummary, commitResult>>

\* step 1: the flag askStage, the prompt and its answers
AskStage ==
    /\ InWizard("stage")
    /\ IF prompts.askStage
       THEN \/ /\ ExecuteWorkflow("stage", <<"stage:all">>)
               /\ wizardPc' = "staging"
               /\ UNCHANGED cancelledAt
            \/ /\ Goto("checks")
               /\ UNCHANGED <<phases, cancelledAt>>
            \/ /\ PromptThrows
               /\ UNCHANGED phases
       ELSE /\ Goto("checks")
            /\ UNCHANGED <<phases, cancelledAt>>
    /\ UNCHANGED <<outsideWizard, checkSummary, commitResult>>

\* the staging workflow returned its result
AfterStage ==
    /\ wizardPc = "staging"
    /\ pc = "done"
    /\ IF StagingStops(result) THEN Goto("returned") ELSE Goto("checks")
    /\ UNCHANGED <<outsideWizard, cancelledAt, phases, checkSummary, commitResult>>

\* the test of step 2: the flag showChecks and an enabled check
OffersChecks == prompts.showChecks /\ EnabledNames(checks) # <<>>

\* step 2: the prompt, runChecks(enabledChecks) and canProceed
AskChecks ==
    /\ InWizard("checks")
    /\ IF OffersChecks
       THEN /\ ~pendingRejection
            /\ \/ \E passes \in CheckOutcomes :
                    /\ checkSummary' =
                           summarizeResults(runChecks(checks, EnabledNames(checks), passes))
                    /\ phases' = Append(phases, "checks")
                    /\ IF canProceed(checks, checkSummary')
                       THEN Goto("commit")
                       ELSE Goto("returned")
                    /\ UNCHANGED cancelledAt
               \/ /\ Goto("commit")
                  /\ UNCHANGED <<phases, checkSummary, cancelledAt>>
               \/ /\ PromptThrows
                  /\ UNCHANGED <<phases, checkSummary>>
       ELSE /\ Goto("commit")
            /\ UNCHANGED <<phases, checkSummary, cancelledAt>>
    /\ UNCHANGED <<outsideWizard, commitResult>>

\* the unhandledRejection handler runs while the prompt of step 2 waits
RejectionAtPrompt ==
    /\ InWizard("checks")
    /\ OffersChecks
    /\ pendingRejection
    /\ wizardPc' = "exited"
    /\ pc' = "exited"
    /\ UNCHANGED <<outsideWizard, steps, loop, cancelledAt, phases, checkSummary,
                   commitResult>>

\* step 3: the commit workflow is started
StartCommit ==
    /\ InWizard("commit")
    /\ ExecuteWorkflow("commit", <<"commit:interactive">>)
    /\ wizardPc' = "committing"
    /\ UNCHANGED <<outsideWizard, cancelledAt, checkSummary, commitResult>>

\* the commit workflow returned; step 4 starts the push workflow
AfterCommit ==
    /\ wizardPc = "committing"
    /\ pc = "done"
    /\ commitResult' = result
    /\ IF CommitStops(result)
       THEN Goto("returned") /\ UNCHANGED phases
       ELSE IF prompts.askPush
       THEN ExecuteWorkflow("push", <<"push:prompt">>) /\ wizardPc' = "pushing"
       ELSE Goto("returned") /\ UNCHANGED phases
    /\ UNCHANGED <<outsideWizard, cancelledAt, checkSummary>>

\* the push workflow returned and runCommitWizard ends
AfterPush ==
    /\ wizardPc = "pushing"
    /\ pc = "done"
    /\ Goto("returned")
    /\ UNCHANGED <<outsideWizard, cancelledAt, phases, checkSummary, commitResult>>

WizardNext ==
    \/ CheckForChanges
    \/ AskStage
    \/ AfterStage
    \/ AskChecks
    \/ RejectionAtPrompt
    \/ StartCommit
    \/ AfterCommit
    \/ AfterPush
    \/ StageAll
    \/ CommitStart
    \/ PrimaryCall
    \/ FallbackCall
    \/ AfterGenerate
    \/ GenerateRaised
    \/ SelectAnswer
    \/ EditAnswer
    \/ PushPrompt
    \/ NextStep
    \/ ReturnSuccess
    \/ WorkflowCatch
    \/ UnhandledRejection

WizardSpec == WizardInit /\ [][WizardNext]_vars

\* --------------------------------------- ConfigManager.set and save
\* a configuration command starts: a file and an environment are given
ConfigInit ==
    /\ cfgFile \in ConfigFiles
    /\ env \in Envs
    /\ config = NoConfig
    /\ command = <<>>
    /\ saved = NotSaved
    /\ pc = "newManager"
    /\ provider = NoProvider
    /\ fallbackProvider = NoProvider
    /\ startError = ""
    /\ steps = <<>>
    /\ dryRun = FALSE
    /\ hasFallback = FALSE
    /\ checks = DefaultChecks
    /\ stepsCompleted = 0
    /\ result = NoResult
    /\ attempts = 0
    /\ previousMessages = <<>>
    /\ messages = <<>>
    /\ commitMessage = <<>>
    /\ primaryError = NoError
    /\ pendingRejection = FALSE
    /\ notice = <<>>
    /\ calls = <<>>
    /\ genCount = 0
    /\ generated = <<>>
    /\ gitOps = <<>>
    /\ stepLog = <<>>
    /\ exitKind = "none"
    /\ lastSummary = NoSummary
    /\ diffContext = <<>>
    /\ response = <<>>
    /\ raised = NoError
    /\ stepResult = FALSE
    /\ genRoute = "none"
    /\ cancelledAt = -1
    /\ rawText = <<>>
    /\ parsedOnce = <<>>
    /\ parsedTwice = <<>>
    /\ diffLines = <<>>
    /\ symbols = <<>>
    /\ renamePass = <<>>
    /\ extracted = <<>>
    /\ HistoryIdle
    /\ WizardIdle

outsideManager ==
    <<steps, dryRun, hasFallback, checks, locals, loop, quiet, pendingRejection,
      notice, gitOps, raised, stepResult, cancelledAt, rawText, parsedOnce,
      parsedTwice, extractorVars, historyVars, wizardVars, cfgFile, env,
      provider, fallbackProvider>>

\* what the user types into the prompts of add-model
TypedEntries ==
    { ModelEntry("openrouter", "openai/gpt-4o", "", "typed"),
      ModelEntry("ollama", "llama3", "http://localhost:11434", "") }

\* what the user types into an input prompt; "" accepts the initial value
TypedTexts == {"", "typed"}

\* the model names given to cgen use: the keys and a name that is no key
UseNames == ModelNames \cup {"m3"}

\* the configuration commands and their arguments
Commands ==
    {<<"use", modelName>> : modelName \in UseNames}
    \cup {<<"add-model", name, entry>> : name \in ModelNames, entry \in TypedEntries}
    \cup {<<"ai", model, baseUrl>> : model \in TypedTexts, baseUrl \in TypedTexts}
    \cup {<<"prompts">>}

\* the object ConfigManager.config after the set calls of a command
AfterSet(cfg, cmd) ==
    CASE cmd[1] = "use" -> [cfg EXCEPT !.activeModel = cmd[2]]
      [] cmd[1] = "add-model" -> [cfg EXCEPT !.models[cmd[2]] = cmd[3]]
      [] cmd[1] = "ai" -> [cfg EXCEPT !.model = Or(cmd[2], cfg.model),
                                      !.baseUrl = Or(cmd[3], cfg.baseUrl)]
      [] OTHER -> cfg

\* save: JSON.stringify(this.config) is the whole merged object
WrittenBy(cfg) == cfg

\* cgen use refuses a name that is no key of config.models
Refused(cfg, cmd) ==
    cmd[1] = "use" /\ (cmd[2] \notin ModelNames \/ ~cfg.models[cmd[2]].defined)

\* new ConfigManager(): loadConfig, whose error ends the command
NewConfigManager ==
    /\ pc = "newManager"
    /\ LET loaded == loadConfig(cfgFile, env)
       IN  IF loaded.error # ""
           THEN Abort(loaded.error) /\ UNCHANGED config
           ELSE /\ config' = loaded.config
                /\ pc' = "command"
                /\ UNCHANGED startError
    /\ UNCHANGED <<outsideManager, managerVars>>

\* use, add-model and the configuration menu: the set calls, then save
RunCommand ==
    /\ pc = "command"
    /\ \E cmd \in Commands :
         /\ command' = cmd
         /\ IF Refused(config, cmd)
            THEN /\ pc' = "exited"
                 /\ UNCHANGED <<config, saved>>
            ELSE /\ config' = AfterSet(config, cmd)
                 /\ saved' = Saved(TRUE, WrittenBy(config'))
                 /\ pc' = "saved"
    /\ UNCHANGED <<outsideManager, startError>>

\* a prompt of add-model or of the menu is cancelled: nothing is saved
CancelCommand ==
    /\ pc = "command"
    /\ pc' = "exited"
    /\ UNCHANGED <<outsideManager, managerVars, config, startError>>

ConfigNext ==
    \/ NewConfigManager
    \/ RunCommand
    \/ CancelCommand

ConfigSpec == ConfigInit /\ [][ConfigNext]_vars

\* ================================================================ claims
OpsOfStep(op, i) ==
    {k \in 1..Len(gitOps) : gitOps[k].op = op /\ gitOps[k].step = i}

LastOf(seq) == seq[Len(seq)]

\* part occurs in text as a contiguous run
Contains(text, part) ==
    \E i \in 0..(Len(text) - Len(part)) : SubSeq(text, i + 1, i + Len(part)) = part

\* a step function has returned and executeWorkflow has not yet looked at it
StepReturnedFrom(names) ==
    pc = "stepReturned" /\ ~dryRun /\ CurStep \in names

\* C1: when step i is the first whose step function returns false, no later
\* step is started and the result is success = false, failedStep = step i,
\* error = "Step failed: <step i>", stepsCompleted = number of earlier steps
C1_FirstFalseStops ==
    \A i \in 1..Len(stepLog) :
        stepLog[i] = "false" =>
            /\ i = Len(stepLog)
            /\ \A j \in 1..(i - 1) : stepLog[j] = "true"
            /\ \A k \in 1..Len(gitOps) : gitOps[k].step <= i
            /\ pc = "done"
            /\ result = [success |-> FALSE,
                         stepsCompleted |-> i - 1,
                         totalSteps |-> Len(steps),
                         failedStep |-> steps[i],
                         error |-> <<"Step failed: ", steps[i]>>]

\* a workflow stopped at a failing first step with a step still to run
C1_Witness ==
    /\ pc = "done"
    /\ Len(steps) = 2
    /\ stepLog = <<"false">>
    /\ ~dryRun

\* a blocking check of the last summary failed
BlockingFailed(summary) ==
    \E i \in 1..Len(summary.results) :
        /\ ~summary.results[i].passed
        /\ \E j \in 1..Len(checks) :
              /\ checks[j].name = summary.results[i].name
              /\ checks[j].enabled
              /\ checks[j].blocking

\* C2: a check step returns false exactly when an enabled blocking check it
\* ran failed (non-blocking failures let it return true), and after a check
\* step returned false the workflow is over and no later step committed or
\* pushed
C2_BlockingCheckGates ==
    /\ StepReturnedFrom(CheckSteps) => (stepResult = ~BlockingFailed(lastSummary))
    /\ \A i \in 1..Len(stepLog) :
          (steps[i] \in CheckSteps /\ stepLog[i] = "false") =>
              /\ pc = "done"
              /\ ~result.success
              /\ result.failedStep = steps[i]
              /\ \A k \in 1..Len(gitOps) : gitOps[k].step < i

\* a failed blocking check stopped a workflow whose next step commits or pushes
C2_Witness ==
    /\ pc = "done"
    /\ Len(steps) = 2
    /\ steps[1] \in CheckSteps
    /\ steps[2] \in CommitSteps \cup {"push", "push:prompt"}
    /\ stepLog = <<"false">>

\* C3: when the git operation of a stage, commit or push step fails, the step
\* returns false and no later step runs a git operation
C3_GitFailureFailsStep ==
    \A k \in 1..Len(gitOps) :
        ~gitOps[k].ok =>
            /\ (pc = "stepReturned" /\ gitOps[k].step = stepsCompleted + 1)
                   => ~stepResult
            /\ Len(stepLog) >= gitOps[k].step => stepLog[gitOps[k].step] = "false"
            /\ \A j \in 1..Len(gitOps) : gitOps[j].step <= gitOps[k].step

\* C4 as stated: whenever the fallback produced the text, the commit step
\* that asked for it returns true
C4_FallbackTextMeansSuccess ==
    (StepReturnedFrom(CommitSteps) /\ genRoute = "fallback") => stepResult

\* C4 (amended): the primary is called first; the fallback is called at most
\* once, only after the primary failed and only when configured, with the same
\* messages; the text returned is the primary's when it succeeds and else the
\* fallback's; commit:auto then returns true, and commit:review and
\* commit:interactive return true when the user accepts or edits
C4_FallbackOrder ==
    /\ Len(calls) <= 2
    /\ Len(calls) >= 1 => calls[1].provider = "primary"
    /\ Len(calls) = 2 =>
          /\ calls[2].provider = "fallback"
          /\ ~calls[1].ok
          /\ hasFallback
          /\ calls[2].messages = calls[1].messages
    /\ pc \in {"fallback", "genReturned", "genRaised"} => Len(calls) >= 1
    /\ pc = "genReturned" =>
          /\ LastOf(calls).ok
          /\ response = LastOf(calls).text
          /\ calls[1].ok => Len(calls) = 1
          /\ genRoute = LastOf(calls).provider
    /\ (StepReturnedFrom(CommitSteps) /\ genRoute \in {"primary", "fallback"}) =>
          /\ CurStep = "commit:auto" => stepResult
          /\ exitKind \in {"accept", "edit"} => stepResult

\* commit:auto returned true on a text the fallback produced
C4_Witness ==
    /\ StepReturnedFrom({"commit:auto"})
    /\ genRoute = "fallback"
    /\ stepResult

\* C5: when the primary fails, a failing fallback raises one error naming both
\* failures, and without a fallback the primary's error is raised unchanged;
\* the commit step then returns false and commits nothing
C5_GenerationFailure ==
    /\ pc = "genRaised" =>
          /\ ~calls[1].ok
          /\ IF hasFallback
             THEN /\ Len(calls) = 2
                  /\ ~calls[2].ok
                  /\ Contains(raised.message, calls[1].error.message)
                  /\ Contains(raised.message, calls[2].error.message)
             ELSE /\ Len(calls) = 1
                  /\ raised = calls[1].error
    /\ (StepReturnedFrom(CommitSteps) /\ genRoute = "failed") =>
          /\ ~stepResult
          /\ OpsOfStep("commit", stepsCompleted + 1) = {}
          /\ exitKind = "error"

\* both providers failed
C5_Witness ==
    /\ pc = "genRaised"
    /\ hasFallback
    /\ Len(calls) = 2

InInteractive ==
    /\ pc \in {"primary", "fallback", "genReturned", "genRaised", "select", "edit"}
    /\ CurStep = "commit:interactive"

\* C6: one execution of commit:interactive starts at most 5 generate-text
\* operations, and once the fifth message was answered with retry the step
\* returns false without committing
C6_AtMostFiveGenerations ==
    /\ genCount <= 5
    /\ attempts <= 5
    /\ InInteractive => genCount = attempts
    /\ (StepReturnedFrom({"commit:interactive"}) /\ exitKind = "exhausted") =>
          /\ genCount = 5
          /\ ~stepResult
          /\ OpsOfStep("commit", stepsCompleted + 1) = {}

\* the user answered retry five times
C6_Witness ==
    /\ StepReturnedFrom({"commit:interactive"})
    /\ exitKind = "exhausted"

\* the messages already shown when attempt number attempts is being generated
ShownBefore == SubSeq(generated, 1, attempts - 1)

\* C7: attempt k >= 2 of commit:interactive sends the fresh prompt pair and
\* exactly one more user message, which lists the k-1 messages of attempts
\* 1..k-1 in order; attempt 1 sends the pair alone; the list of previous
\* messages has k-1 entries during attempt k, so it starts empty and grows by
\* one per retry
C7_RetryListsPrevious ==
    InInteractive =>
        /\ Len(previousMessages) = attempts - 1
        /\ previousMessages = ShownBefore
        /\ SubSeq(messages, 1, 2) = buildBracketedCommitPrompt(diffContext)
        /\ attempts = 1 => Len(messages) = 2
        /\ attempts >= 2 =>
              /\ Len(messages) = 3
              /\ messages[3].role = "user"
              /\ messages[3].content =
                     <<"Previous attempt(s) generated: ">>
                     \o Join(ShownBefore, <<",", " ">>)
                     \o <<". Please generate a DIFFERENT commit message with alternative wording or perspective.">>

\* the third attempt is being generated after two different messages
C7_Witness ==
    /\ InInteractive
    /\ pc = "primary"
    /\ attempts = 3
    /\ previousMessages[1] # previousMessages[2]

\* C8 as stated: commit:interactive ends by accept, edit, cancel or exhaustion
C8_FourWaysOnly ==
    StepReturnedFrom({"commit:interactive"}) =>
        exitKind \in {"accept", "edit", "cancel", "exhausted"}

\* C8 (amended): commit:interactive ends by accept (one commit of the message
\* generated in that attempt, returns true), edit (one commit of the typed
\* text, returns true), cancel or exhaustion (no commit, returns false), or by
\* an early or error exit - no staged changes, or getStagedDiff, generation or
\* a prompt raising - with no commit and false; never more than one commit
C8_InteractiveExits ==
    StepReturnedFrom({"commit:interactive"}) =>
        LET mine == OpsOfStep("commit", stepsCompleted + 1)
        IN  /\ Cardinality(mine) <= 1
            /\ exitKind \in {"accept", "edit", "cancel", "exhausted",
                             "noChanges", "error"}
            /\ exitKind = "accept" =>
                  /\ stepResult
                  /\ Cardinality(mine) = 1
                  /\ LastOf(gitOps).message = parseCommitMessage(response)
            /\ exitKind = "edit" =>
                  /\ stepResult
                  /\ Cardinality(mine) = 1
                  /\ LastOf(gitOps).message \in EditedTexts
            /\ exitKind \in {"cancel", "exhausted", "noChanges", "error"} =>
                  /\ ~stepResult
                  /\ mine = {}

\* the user edited the message and it was committed
C8_Witness ==
    /\ StepReturnedFrom({"commit:interactive"})
    /\ exitKind = "edit"
    /\ gitOps # <<>>

\* what the caller of the step function sees when the user cancels
CancelOutcome == [returned |-> FALSE, error |-> NoError]

\* C9 as stated: after exhaustion the caller of the step sees something else
\* than after a cancel
C9_CallerSeesMaxRetries ==
    (StepReturnedFrom({"commit:interactive"}) /\ exitKind = "exhausted") =>
        [returned |-> stepResult, error |-> raised] # CancelOutcome

\* C9 (amended): exhaustion and cancel differ in the line printed - the
\* warning "Maximum retry attempts reached" against "Commit cancelled" - while
\* the step returns the same false to executeWorkflow in both cases
C9_MaxRetriesIsANotice ==
    StepReturnedFrom({"commit:interactive"}) =>
        /\ exitKind = "exhausted" =>
              /\ notice = <<"Maximum retry attempts reached">>
              /\ [returned |-> stepResult, error |-> raised] = CancelOutcome
        /\ exitKind = "cancel" =>
              /\ notice = <<"Commit cancelled">>
              /\ [returned |-> stepResult, error |-> raised] = CancelOutcome

\* the attempts ran out
C9_Witness ==
    /\ StepReturnedFrom({"commit:interactive"})
    /\ exitKind = "exhausted"
    /\ notice = <<"Maximum retry attempts reached">>

\* C10: a returned WorkflowResult has totalSteps = number of steps and
\* stepsCompleted <= totalSteps; success holds exactly when they are equal,
\* and then failedStep and error are absent; failedStep is present exactly
\* when a step returned false; after an exception success is false,
\* failedStep is absent and error is the exception's message
C10_ResultShape ==
    pc = "done" =>
        /\ result.totalSteps = Len(steps)
        /\ result.stepsCompleted <= result.totalSteps
        /\ result.success = (result.stepsCompleted = result.totalSteps)
        /\ result.success =>
              DOMAIN result = {"success", "stepsCompleted", "totalSteps"}
        /\ ("failedStep" \in DOMAIN result) =
              (stepLog # <<>> /\ LastOf(stepLog) = "false")
        /\ (stepLog # <<>> /\ LastOf(stepLog) = "throw") =>
              /\ ~result.success
              /\ "failedStep" \notin DOMAIN result
              /\ result.error = raised.message

\* a workflow ended by an exception of its second step
C10_Witness ==
    /\ pc = "done"
    /\ stepLog = <<"true", "throw">>

\* C11: in a dry run every step is a no-op returning true - no stage, check,
\* provider, prompt, commit or push operation is executed - and
\* executeWorkflow returns success with stepsCompleted = totalSteps
C11_DryRunIsNoOp ==
    dryRun =>
        /\ pc \in {"step", "stepReturned", "done"}
        /\ gitOps = <<>>
        /\ calls = <<>>
        /\ genCount = 0
        /\ diffContext = <<>>
        /\ lastSummary = NoSummary
        /\ notice = <<>>
        /\ exitKind = "none"
        /\ cancelledAt = -1
        /\ ~pendingRejection
        /\ \A i \in 1..Len(stepLog) : stepLog[i] = "true"
        /\ pc = "stepReturned" => stepResult
        /\ pc = "done" =>
              result = [success |-> TRUE,
                        stepsCompleted |-> Len(steps),
                        totalSteps |-> Len(steps)]

\* a dry run of an unknown step followed by a commit step has returned
C11_Witness ==
    /\ dryRun
    /\ pc = "done"
    /\ steps = <<"unknown", "commit:auto">>

\* C12: once a prompt of a step was cancelled, whatever error the prompt
\* rejected with, the step stops, no stage, commit or push operation follows
\* and executeWorkflow returns a non-success result
C12_CancelStopsWorkflow ==
    cancelledAt >= 0 =>
        /\ pc \in {"stepReturned", "stepRaised", "done", "exited"}
        /\ Len(gitOps) = cancelledAt
        /\ pc = "stepReturned" => ~stepResult
        /\ pc = "done" => ~result.success

\* the primary call of a generate-text operation failed
PrimaryFailed ==
    /\ pc \in {"fallback", "genReturned", "genRaised"}
    /\ calls # <<>>
    /\ ~calls[1].ok

\* the fallback provider is being called, or was
Retried == pc = "fallback" \/ Len(calls) = 2

C14_EnvKeyWins ==
    \A p \in {provider, fallbackProvider} :
        (p.built /\ p.kind = "openrouter" /\ env.OPENROUTER_API_KEY # "")
            => p.credential = env.OPENROUTER_API_KEY

\* the configuration is one loadConfig rejects or validate reports
InvalidConfiguration ==
    LET loaded == loadConfig(cfgFile, env)
    IN  loaded.error # "" \/ ~validate(loaded.config, env).valid

\* C15: with a configuration error the command aborts before any pipeline
\* work: nothing is staged, no diff is collected, no provider is called,
\* nothing is committed or pushed
C15_ConfigErrorsAbortEarly ==
    InvalidConfiguration =>
        /\ pc \notin {"finished", "done", "exited"}
        /\ gitOps = <<>>
        /\ calls = <<>>
        /\ genCount = 0
        /\ stepLog = <<>>

\* C16: parsing a parsed message again changes nothing
C16_ParseIdempotent ==
    pc = "parsed" => parsedTwice = parsedOnce

\* the first line of the text after trimming and removing fence and quotes
CleanedFirstLine ==
    FirstLine(StripQuotes(StripFenceClose(StripFenceOpen(Trim(rawText)))))

\* the line without one leading character that is no letter
WithoutLeadingNonLetter(line) ==
    IF line # <<>> /\ line[1] \notin (LowerLetters \cup UpperLetters)
    THEN Tail(line) ELSE line

NoLineBreak(text) == \A i \in 1..Len(text) : text[i] # "\n"

\* C17 as stated: the result has no line break and a length strictly between
\* 3 and 99, and is "chore: update code" when neither the cleaned first line
\* nor that line without one leading non-letter has these two properties
C17_AsStated ==
    pc \in {"reparse", "parsed"} =>
        LET ok(t) == NoLineBreak(t) /\ Len(t) > 3 /\ Len(t) < 99
        IN  /\ ok(parsedOnce)
            /\ (~ok(CleanedFirstLine)
                  /\ ~ok(WithoutLeadingNonLetter(CleanedFirstLine)))
                  => parsedOnce = FallbackMessage

\* C17 (amended): the result has no line break and a length greater than 3
\* and less than 100, and is "chore: update code" when neither the cleaned
\* first line nor that line without one leading non-letter and then trimmed
\* has these two properties
C17_ParsedIsValid ==
    pc \in {"reparse", "parsed"} =>
        LET ok(t) == NoLineBreak(t) /\ Len(t) > 3 /\ Len(t) < 100
        IN  /\ ok(parsedOnce)
            /\ (~ok(CleanedFirstLine)
                  /\ ~ok(Trim(WithoutLeadingNonLetter(CleanedFirstLine))))
                  => parsedOnce = FallbackMessage
            /\ ok(CleanedFirstLine) => parsedOnce = CleanedFirstLine

\* a text of 101 characters whose first character is no letter was replaced
C17_Witness ==
    /\ pc = "parsed"
    /\ Len(rawText) = 101
    /\ parsedOnce = FallbackMessage

\* C18: the symbols returned by extract hold no two entries with the same
\* name, type, action and file, and every symbol found is among them
C18_NoDuplicateTuples ==
    pc = "extracted" =>
        /\ \A i, j \in 1..Len(extracted) :
              SeenKey(extracted[i]) = SeenKey(extracted[j]) => i = j
        /\ \A i \in 1..Len(symbols) : \E k \in 1..Len(extracted) :
              SeenKey(extracted[k]) = SeenKey(symbols[i])

\* extract dropped a repeated symbol
C18_Witness ==
    /\ pc = "extracted"
    /\ Len(extracted) >= 1
    /\ Len(extracted) < Len(symbols)

\* C19 as stated: the symbols returned hold no two entries with the same
\* name, type and file
C19_OnePerNameTypeFile ==
    pc = "extracted" =>
        \A i, j \in 1..Len(extracted) :
            GroupKey(extracted[i]) = GroupKey(extracted[j]) => i = j

\* C19 (amended): of the symbols returned, two entries with the same name,
\* type and file are one renamed entry and one entry that is not renamed
C19_OnePerKeyAndAction ==
    pc = "extracted" =>
        \A i, j \in 1..Len(extracted) :
            (i # j /\ GroupKey(extracted[i]) = GroupKey(extracted[j])) =>
                (extracted[i].action = "renamed") # (extracted[j].action = "renamed")

\* a name is returned both as renamed and as added
C19_Witness ==
    /\ pc = "extracted"
    /\ \E i, j \in 1..Len(extracted) :
          /\ GroupKey(extracted[i]) = GroupKey(extracted[j])
          /\ extracted[i].action = "renamed"
          /\ extracted[j].action = "added"

\* C20: a symbol is modified only if it was added or deleted after rename
\* detection and its name, type and file then had both an added and a
\* deleted symbol; a renamed symbol stays renamed; the symbols returned are
\* these symbols
C20_ModifiedOnlyWithBoth ==
    pc = "extracted" =>
        /\ Len(symbols) = Len(renamePass)
        /\ \A i \in 1..Len(symbols) :
              /\ symbols[i].action = "modified" =>
                    /\ renamePass[i].action \in {"added", "deleted"}
                    /\ \E a, d \in 1..Len(renamePass) :
                          /\ GroupKey(renamePass[a]) = GroupKey(symbols[i])
                          /\ GroupKey(renamePass[d]) = GroupKey(symbols[i])
                          /\ renamePass[a].action = "added"
                          /\ renamePass[d].action = "deleted"
              /\ renamePass[i].action = "renamed" => symbols[i].action = "renamed"
        /\ \A k \in 1..Len(extracted) : \E i \in 1..Len(symbols) :
              extracted[k] = symbols[i]

\* extract returned a modified symbol
C20_Witness ==
    /\ pc = "extracted"
    /\ \E i \in 1..Len(extracted) : extracted[i].action = "modified"

\* the symbols found by the loop of extract, before any of them is reclassified
Scanned == ScanLines(diffLines, "")

\* the pairs of names of which one is a case-insensitive substring of the
\* other, or whose edit distance is at most 3
CloseTo(name) ==
    {other \in SymbolNames :
        \/ IncludesText(toLowerCase(name), toLowerCase(other))
        \/ IncludesText(toLowerCase(other), toLowerCase(name))
        \/ levenshteinDistance(toLowerCase(name), toLowerCase(other)) <= 3}

CloseNames ==
    UNION {{<<name, other>> : other \in CloseTo(name)} : name \in SymbolNames}

\* a deleted and an added symbol of one type and file with similar names
SimilarPair(del, add) ==
    /\ del.action = "deleted"
    /\ add.action = "added"
    /\ del.type = add.type
    /\ del.file = add.file
    /\ del.name # add.name
    /\ <<del.name, add.name>> \in CloseNames

\* C21: for every deleted and added symbol of one type and file whose names
\* differ and are similar, both are classified as renamed, both are returned
\* as renamed, and the added one is returned with the name of a deleted
\* symbol it was paired with as its oldName
C21_SimilarPairsRenamed ==
    pc = "extracted" =>
        \A d, a \in 1..Len(Scanned) :
            SimilarPair(Scanned[d], Scanned[a]) =>
                /\ symbols[d].action = "renamed"
                /\ symbols[a].action = "renamed"
                /\ \E k \in 1..Len(extracted) :
                      /\ GroupKey(extracted[k]) = GroupKey(Scanned[d])
                      /\ extracted[k].action = "renamed"
                /\ \E k \in 1..Len(extracted) :
                      /\ GroupKey(extracted[k]) = GroupKey(Scanned[a])
                      /\ extracted[k].action = "renamed"
                      /\ \E e \in 1..Len(Scanned) :
                            /\ SimilarPair(Scanned[e], Scanned[a])
                            /\ extracted[k].oldName = Scanned[e].name

\* the keyword occurs in the subject line, whatever the case of the letters
Mentions(message, word) == IncludesText(toLowerCase(message), toLowerCase(word))

\* the keywords that occur in the subject line, by their positions
Mentioned(message) == {i \in 1..Len(keywords) : Mentions(message, keywords[i])}

\* C22 as stated: the similarity of a commit is 0 whenever it touched no
\* files and no files are changed now
C22_ZeroWithoutFiles ==
    pc = "ranked" =>
        \A i \in 1..Len(scoredCommits) :
            (scoredCommits[i].files = <<>> /\ changedFiles = <<>>) =>
                scoredCommits[i].similarity = 0

\* C22 (amended): when a commit touched no files and no files are changed
\* now, its similarity is one tenth of the share of the keywords that occur
\* in its subject line, and 0 when there are no keywords
C22_KeywordShareWithoutFiles ==
    pc = "ranked" =>
        \A i \in 1..Len(scoredCommits) :
            (scoredCommits[i].files = <<>> /\ changedFiles = <<>>) =>
                /\ keywords = <<>> => scoredCommits[i].similarity = 0
                /\ keywords # <<>> =>
                      scoredCommits[i].similarity * Len(keywords)
                          = Unit * Cardinality(Mentioned(scoredCommits[i].message))

\* a commit without files is scored above 0 against an empty change
C22_Witness ==
    /\ pc = "ranked"
    /\ changedFiles = <<>>
    /\ \E i \in 1..Len(scoredCommits) :
          /\ scoredCommits[i].files = <<>>
          /\ scoredCommits[i].similarity > 0

\* the parent directory of a path, "." for a path without a slash
ParentOf(path) ==
    IF \E i \in 1..Len(path) : path[i] = "/"
    THEN Take(path, (CHOOSE i \in 1..Len(path) :
                        /\ path[i] = "/"
                        /\ \A j \in (i + 1)..Len(path) : path[j] # "/") - 1)
    ELSE <<".">>

ParentsOf(files) == {ParentOf(files[i]) : i \in 1..Len(files)}

\* the commit shares no file with the change and its subject has no keyword
Unrelated(entry) ==
    /\ SetOf(entry.files) \cap SetOf(changedFiles) = {}
    /\ Mentioned(entry.message) = {}

Returned(entry) ==
    \E k \in 1..Len(similarCommits) : similarCommits[k].hash = entry.hash

C24_RankedResult ==
    pc = "ranked" =>
        /\ Len(similarCommits) <= maxCommits
        /\ \A k \in 1..Len(similarCommits) :
              /\ similarCommits[k].similarity > 0
              /\ similarCommits[k].similarity <= 10 * Unit
              /\ \E i \in 1..Len(scoredCommits) : scoredCommits[i] = similarCommits[k]
        /\ \A k, l \in 1..Len(similarCommits) :
              k < l =>
                  /\ similarCommits[k].similarity >= similarCommits[l].similarity
                  /\ similarCommits[k].similarity = similarCommits[l].similarity =>
                        similarCommits[k].hash < similarCommits[l].hash
        /\ ~gitLog.ok => similarCommits = <<>>

\* two commits of equal score are returned and a third related one is cut off
C24_Witness ==
    /\ pc = "ranked"
    /\ Len(similarCommits) = 2
    /\ similarCommits[1].similarity = similarCommits[2].similarity
    /\ Cardinality({i \in 1..Len(scoredCommits) : scoredCommits[i].similarity > 0}) > 2

\* the push operations executed by the step the workflow is at
PushesOfStep ==
    {i \in 1..Len(gitOps) : gitOps[i].op = "push" /\ gitOps[i].step = stepsCompleted + 1}

AtPushStep(names) ==
    /\ ~dryRun
    /\ stepsCompleted < totalSteps
    /\ CurStep \in names

\* C25: the push step executes one push operation and returns true exactly
\* when it did not raise, whatever it printed; the push:prompt step executes
\* at most one push operation, returns what that push returns, and returns
\* true without a push when the user declines; a cancelled push prompt
\* executes no push
C25_PushOutcome ==
    /\ (pc = "stepReturned" /\ AtPushStep({"push", "push:prompt"})) =>
          /\ Cardinality(PushesOfStep) <= 1
          /\ CurStep = "push" => Cardinality(PushesOfStep) = 1
          /\ stepResult <=> \A i \in PushesOfStep : gitOps[i].ok
    /\ (pc = "stepRaised" /\ AtPushStep({"push", "push:prompt"})) =>
          /\ CurStep = "push:prompt"
          /\ PushesOfStep = {}

\* a push that found the remote up to date returned true, and the push
\* prompt after it was declined and returned true without pushing
C25_Witness ==
    /\ pc = "stepReturned"
    /\ AtPushStep({"push:prompt"})
    /\ stepResult
    /\ PushesOfStep = {}
    /\ notice = <<"Push skipped">>
    /\ \E i \in 1..Len(gitOps) :
          /\ gitOps[i].op = "push"
          /\ gitOps[i].ok
          /\ gitOps[i].message = <<"up to date">>

\* the check a check:<name> step asks for is switched off or not configured
Skipped(name) == ~HasCheck(checks, name) \/ ~GetCheck(checks, name).enabled

SpecificCheckSteps == {"check:build", "check:lint", "check:test", "check:typecheck"}

\* C26: a check asked for by name that is disabled or not configured is
\* skipped: no command of it runs, no result is added and none is counted as
\* failed, so the check step asking for it returns true and the workflow goes
\* on to the next step; no summary holds a result of such a check
C26_SkippedCheckPasses ==
    /\ (StepReturnedFrom(SpecificCheckSteps) /\ Skipped(CheckNameOf(CurStep))) =>
           /\ lastSummary.results = <<>>
           /\ lastSummary.totalChecks = 0
           /\ lastSummary.failed = 0
           /\ stepResult
    /\ \A i \in 1..Len(stepLog) :
           (~dryRun /\ steps[i] \in SpecificCheckSteps /\ Skipped(CheckNameOf(steps[i]))) =>
               stepLog[i] = "true"
    /\ (pc = "stepReturned" /\ ~dryRun /\ CurStep \in CheckSteps) =>
           \A k \in 1..Len(lastSummary.results) :
               ~Skipped(lastSummary.results[k].name)

\* a step asking for the disabled check returned true and the step after it,
\* which asks for a check that is not configured, has returned as well
C26_Witness ==
    /\ StepReturnedFrom({"check:typecheck"})
    /\ stepsCompleted = 1
    /\ steps[1] = "check:test"
    /\ stepLog = <<"true">>
    /\ lastSummary.results = <<>>

\* the positions of a commit step behind its test for staged changes: a
\* provider is being called, a prompt is open, or the text came back
InCommitBody == pc \in {"primary", "fallback", "genRaised", "genReturned",
                        "confirm", "select", "edit"}

\* the staged diff the running commit step holds names at least one file
HoldsChangedFiles ==
    /\ diffContext # <<>>
    /\ \E i \in 1..Len(diffContext) : diffContext[i] = "diff --git"

\* C27: a commit step that finds no staged changes (an empty diff text or no
\* changed file) returns false and has called no provider, opened no prompt
\* and made no commit; a provider call, a prompt or a commit happens only in
\* a step whose staged diff names a changed file
C27_NoChangesNoCommit ==
    /\ []((StepReturnedFrom(CommitSteps) /\ exitKind = "noChanges") =>
             /\ ~stepResult
             /\ genCount = 0
             /\ response = <<>>
             /\ OpsOfStep("commit", stepsCompleted + 1) = {})
    /\ [](InCommitBody => HoldsChangedFiles)
    /\ [][(Len(gitOps') > Len(gitOps) /\ LastOf(gitOps').op = "commit")
              => (InCommitBody /\ HoldsChangedFiles)]_vars
    /\ [][(pc = "step" /\ pc' = "stepReturned" /\ ~dryRun /\ CurStep \in CommitSteps
              /\ exitKind' # "error")
              => (exitKind' = "noChanges" /\ ~stepResult' /\ gitOps' = gitOps
                  /\ genCount' = genCount /\ cancelledAt' = cancelledAt)]_vars

\* a commit step of a two-step workflow found nothing staged and returned
\* false before any generation
C27_Witness ==
    /\ StepReturnedFrom(CommitSteps)
    /\ exitKind = "noChanges"
    /\ notice = <<"No staged changes to commit">>
    /\ ~stepResult
    /\ genCount = 0

\* the names the running check step hands to runChecks, without those that
\* runChecks skips
RequestedChecks ==
    IF CurStep = "check:all" THEN EnabledNames(checks)
    ELSE IF Skipped(CheckNameOf(CurStep)) THEN <<>>
    ELSE <<CheckNameOf(CurStep)>>

\* result k of the last summary is a failed check that is blocking
FailedBlocking(k) ==
    /\ ~lastSummary.results[k].passed
    /\ GetCheck(checks, lastSummary.results[k].name).blocking

\* C28: within one runChecks call the checks run in the requested order and
\* stop at the first enabled blocking check that fails: the results are the
\* requested checks up to that one, a failed blocking result is the last
\* result (so there is at most one), every requested check was run unless
\* the last result is such a failure, and totalChecks = passed + failed =
\* number of results
C28_StopsAtFirstBlockingFailure ==
    (pc = "stepReturned" /\ ~dryRun /\ CurStep \in CheckSteps) =>
        LET results == lastSummary.results
        IN  /\ Len(results) <= Len(RequestedChecks)
            /\ \A k \in 1..Len(results) : results[k].name = RequestedChecks[k]
            /\ \A k \in 1..Len(results) : FailedBlocking(k) => k = Len(results)
            /\ Cardinality({k \in 1..Len(results) : FailedBlocking(k)}) <= 1
            /\ Len(results) < Len(RequestedChecks) => FailedBlocking(Len(results))
            /\ lastSummary.totalChecks = Len(results)
            /\ lastSummary.totalChecks = lastSummary.passed + lastSummary.failed

\* the first of two enabled checks is blocking and failed, and the second
\* was not run
C28_Witness ==
    /\ StepReturnedFrom({"check:all"})
    /\ Len(RequestedChecks) = 2
    /\ Len(lastSummary.results) = 1
    /\ FailedBlocking(1)
    /\ lastSummary.failed = 1

\* the place of a phase in the order stage, checks, commit, push
PhaseRank(phase) ==
    CASE phase = "stage" -> 1
      [] phase = "checks" -> 2
      [] phase = "commit" -> 3
      [] phase = "push" -> 4

Started(phase) == \E i \in 1..Len(phases) : phases[i] = phase

\* the git add of the staging phase failed
StagingFailed == \E k \in 1..Len(gitOps) : gitOps[k].op = "add" /\ ~gitOps[k].ok

\* the checks phase ran and an enabled blocking check failed in it
BlockingCheckFailed ==
    /\ checkSummary # NoSummary
    /\ \E k \in 1..Len(checkSummary.results) :
          /\ ~checkSummary.results[k].passed
          /\ GetCheck(checks, checkSummary.results[k].name).blocking

\* C29: the phases of the interactive commit wizard start in the order
\* stage, checks, commit, push; the commit workflow is started only if the
\* staging, when chosen, succeeded and no blocking check failed; the push
\* phase is started only after the commit workflow returned success; and
\* with no changes in the repository no phase starts
C29_WizardPhasesGated ==
    /\ \A i \in 1..Len(phases) : \A j \in (i + 1)..Len(phases) :
          PhaseRank(phases[i]) < PhaseRank(phases[j])
    /\ Started("commit") => (~StagingFailed /\ ~BlockingCheckFailed)
    /\ Started("push") => (commitResult # NoResult /\ commitResult.success)
    /\ statusOutput # "changes" => phases = <<>>

\* the credential of the environment stands somewhere in what was saved
EnvKeySaved ==
    \/ saved.content.apiKey = env.OPENROUTER_API_KEY
    \/ \E n \in ModelNames : saved.content.models[n].apiKey = env.OPENROUTER_API_KEY

\* what the same command writes to the same file with neither variable set
SavedWithoutEnv == AfterSet(loadConfig(cfgFile, NoEnv).config, command)

\* C30: what ConfigManager.save writes does not depend on the environment
\* variables OPENROUTER_API_KEY and COMMITGEN_ACTIVE_MODEL: a credential that
\* is only in the environment is not in the saved content, and the content
\* is what the same command writes when neither variable is set
C30_SaveIgnoresEnvironment ==
    saved.written =>
        /\ env.OPENROUTER_API_KEY # "" => ~EnvKeySaved
        /\ loadConfig(cfgFile, NoEnv).error = "" => saved.content = SavedWithoutEnv

====
